---- MODULE Spec2Model ----
(***************************************************************************)
(* Kokkos Threads back-end, class ThreadsInternal                          *)
(* (core/src/Threads/Kokkos_Threads_Instance.hpp): the spin-wait           *)
(* collectives (barrier, all_reduce, fan_in_reduce, scan_small,            *)
(* scan_large) and the dynamic scheduler (work_range claiming, stealing).  *)
(*                                                                         *)
(* A worker is named by its m_pool_rank.  Every read or write of a field   *)
(* another thread can see is one step; memory is sequentially consistent.  *)
(***************************************************************************)
EXTENDS Integers, Sequences, FiniteSets, TLC

\* ------------------------------------------------------------------------
\* Bounds of the model
MaxPool == 5        \* pool sizes 1..MaxPool
MaxRounds == 2      \* successive barrier / all_reduce calls per worker
MaxStealPool == 3   \* pool sizes 1..MaxStealPool of the scheduler
MaxIndex == 3       \* set_work_range arguments lie in 0..MaxIndex
MaxVaried == 2      \* ranks below it draw their all_reduce input from Values
MaxArg == 4         \* set_work_range arguments -MaxArg..MaxArg (any sign)
MaxChunk == 3       \* chunk sizes 1..MaxChunk
MaxNodes == 3       \* nodes added to a graph
MaxSubmits == 3     \* submit() calls on a graph
MaxTeamIndex == 2   \* set_work_range arguments of the team scheduler
Values == {1, 2}    \* inputs of all_reduce

VARIABLES
  m_pool_size,      \* int m_pool_size
  prog,             \* the collectives every worker calls, in order (SPMD)
  m_pool_state,     \* [rank -> ThreadState]
  pc,               \* [rank -> position in the running call]
  idx,              \* [rank -> loop counter i / rank of the running loop]
  reduce_memory,    \* [rank -> first `count` elements of reduce_memory()]
  scan_memory,      \* [rank -> second `count` elements of reduce_memory()]
  accum,            \* [rank -> local int accum of all_reduce]
  entered,          \* [rank -> number of collective calls entered]
  returned,         \* [rank -> number of collective calls returned from]
  value,            \* [rank -> the worker's all_reduce argument of round 1]
  result,           \* [rank -> what the worker's last all_reduce returned]
  m_work_range,     \* [rank -> <<first, second>>], Kokkos::pair<long, long>
  m_current_steal_target,  \* [rank -> int]
  m_stealing,       \* [rank -> bool]
  m_team_work_index,       \* [rank -> long]
  work_range_old,   \* [rank -> local of get_work_index_begin / _end]
  work_range_new,   \* [rank -> local of get_work_index_begin / _end]
  partial_read,     \* [rank -> m_work_range as a plain read began to see it]
  range_args,       \* [rank -> the arguments passed to set_work_range]
  claimed,          \* the indices get_work_index has returned so far
  twice,            \* the indices get_work_index has returned more than once
  team_size,        \* the team_size every get_work_index call passes, 0: none
  unfenced,         \* [rank -> the worker wrote a slot after its last fence]
  m_graph,          \* GraphImpl<SYCL>: number of nodes of the modifiable graph
  m_graph_exec,     \* std::optional: << >> or <<n>>, finalized from n nodes
  sycl_queue,       \* the executables passed to ext_oneapi_graph, in order
  finalized,        \* number of m_graph.finalize() calls so far
  graph_call,       \* the last GraphImpl member function called
  aborted           \* a KOKKOS_EXPECTS / KOKKOS_ENSURES check has failed

sched_vars == <<m_work_range, m_current_steal_target, m_stealing,
                m_team_work_index, work_range_old, work_range_new,
                partial_read, range_args, claimed, twice, team_size>>

coll_vars == <<m_pool_state, reduce_memory, scan_memory, accum, entered,
               returned, value, result, unfenced>>

graph_vars == <<m_graph, m_graph_exec, sycl_queue, finalized, graph_call,
                aborted>>

vars == <<m_pool_size, prog, pc, idx, coll_vars, sched_vars, graph_vars>>

\* ------------------------------------------------------------------------
\* Pool topology

Ranks == 0 .. (MaxPool - 1)

Workers == 0 .. (m_pool_size - 1)

\* const int rev_rank = m_pool_size - (m_pool_rank + 1);
rev_rank(w) == m_pool_size - (w + 1)

\* int m_pool_rank of worker w
m_pool_rank(w) == w

\* m_pool_base[k]: the control block whose reverse rank is k (its m_pool_rank)
pool_base(k) == m_pool_size - (k + 1)

\* get_thread(rank): the control block whose m_pool_rank is rank
get_thread(rank) == rank

\* fan_size(rank, size): number of fan-in children of a worker
RECURSIVE fan_count(_, _, _)
fan_count(rr, size, n) ==
  IF (rr + n < size) /\ ((rr \div n) % 2 = 0)
    THEN 1 + fan_count(rr, size, 2 * n)
    ELSE 0

m_pool_fan_size(w) == fan_count(rev_rank(w), m_pool_size, 1)

\* m_pool_base[rev_rank + (1 << i)]
fan(w, i) == pool_base(rev_rank(w) + 2^i)

\* ------------------------------------------------------------------------
\* The functor: a free monoid, so that any associative combine is an image.
\* A value is the sequence of the contributions combined, in order, and the
\* mark of final().  join(dst, src) is called with src holding lower ranks.

contribution(w) == [val |-> <<w>>, fin |-> FALSE]

join(dst, src) == [val |-> src.val \o dst.val, fin |-> dst.fin]

init == [val |-> << >>, fin |-> FALSE]

final(dst) == [dst EXCEPT !.fin = TRUE]

\* ------------------------------------------------------------------------
\* The programs a pool runs

\* The same collective called k times in succession
Repeat(op, k) == [i \in 1 .. k |-> op]

Programs ==
  {Repeat(op, k) : op \in {"barrier", "all_reduce"}, k \in 1 .. MaxRounds}
    \cup {<<"fan_in_reduce">>, <<"scan_small">>, <<"scan_large">>}

IsFunctorProgram(p) == p[1] \in {"fan_in_reduce", "scan_small", "scan_large"}

NoRange == [begin |-> 0, end |-> 0, chunk_size |-> 1]

\* GraphImpl(instance): an empty modifiable graph and no executable
GraphImpl ==
  /\ m_graph = 0
  /\ m_graph_exec = << >>
  /\ sycl_queue = << >>
  /\ finalized = 0
  /\ graph_call = "GraphImpl"
  /\ aborted = FALSE

\* The scheduler's fields as the collectives leave them
SchedIdle ==
  /\ m_work_range = [w \in Workers |-> <<0, 0>>]
  /\ m_current_steal_target = [w \in Workers |-> 0]
  /\ m_stealing = [w \in Workers |-> FALSE]
  /\ m_team_work_index = [w \in Workers |-> -1]
  /\ work_range_old = [w \in Workers |-> <<0, 0>>]
  /\ work_range_new = [w \in Workers |-> <<0, 0>>]
  /\ partial_read = [w \in Workers |-> <<0, 0>>]
  /\ range_args = [w \in Workers |-> NoRange]
  /\ claimed = {}
  /\ twice = {}
  /\ team_size = 0

Init ==
  /\ m_pool_size \in 1 .. MaxPool
  /\ prog \in Programs
  /\ m_pool_state = [w \in Workers |-> "Active"]
  /\ pc = [w \in Workers |-> "idle"]
  /\ idx = [w \in Workers |-> 0]
  /\ reduce_memory = [w \in Workers |->
                        IF IsFunctorProgram(prog) THEN contribution(w)
                        ELSE 0]
  /\ scan_memory = [w \in Workers |-> init]
  /\ accum = [w \in Workers |-> 0]
  /\ entered = [w \in Workers |-> 0]
  /\ returned = [w \in Workers |-> 0]
  /\ value \in IF prog[1] = "all_reduce"
                THEN {[w \in Workers |-> IF w < MaxVaried THEN v[w] ELSE 1] :
                        v \in [0 .. (MaxVaried - 1) -> Values]}
                ELSE {[w \in Workers |-> 0]}
  /\ result = [w \in Workers |-> 0]
  /\ unfenced = [w \in Workers |-> FALSE]
  /\ SchedIdle
  /\ GraphImpl

\* The next collective of worker w, when it is between two calls
NextCall(w) ==
  IF w \in Workers /\ pc[w] = "idle" /\ entered[w] < Len(prog)
    THEN prog[entered[w] + 1]
    ELSE "none"

\* Worker w of the pool stands at the position `at` of its call
At(w, at) == w \in Workers /\ pc[w] = at

Return(w) ==
  /\ pc' = [pc EXCEPT ![w] = "idle"]
  /\ idx' = [idx EXCEPT ![w] = 0]
  /\ returned' = [returned EXCEPT ![w] = @ + 1]

\* ------------------------------------------------------------------------
\* barrier()

barrier_enter(w) ==
  /\ NextCall(w) = "barrier"
  /\ entered' = [entered EXCEPT ![w] = @ + 1]
  /\ pc' = [pc EXCEPT ![w] = "barrier_fan_in"]
  /\ idx' = [idx EXCEPT ![w] = 0]
  /\ UNCHANGED <<m_pool_size, prog, m_pool_state, reduce_memory, scan_memory,
                 accum, returned, value, result,
                 sched_vars, graph_vars>>
  /\ unfenced' = [unfenced EXCEPT ![w] = FALSE]

\* Mutant: the fan-in loop of barrier() does not wait for the child
barrier_fan_in_nowait(w) ==
  /\ At(w, "barrier_fan_in")
  /\ idx[w] < m_pool_fan_size(w)
  /\ idx' = [idx EXCEPT ![w] = @ + 1]
  /\ UNCHANGED <<m_pool_size, prog, m_pool_state, pc, reduce_memory,
                 scan_memory, accum, entered, returned, value, result,
                 sched_vars, graph_vars>>
  /\ UNCHANGED unfenced

\* spinwait_while_equal(m_pool_base[rev_rank + (1 << i)]->m_pool_state, Active)
barrier_fan_in(w) ==
  /\ At(w, "barrier_fan_in")
  /\ idx[w] < m_pool_fan_size(w)
  /\ m_pool_state[fan(w, idx[w])] # "Active"
  /\ idx' = [idx EXCEPT ![w] = @ + 1]
  /\ UNCHANGED <<m_pool_size, prog, m_pool_state, pc, reduce_memory,
                 scan_memory, accum, entered, returned, value, result,
                 sched_vars, graph_vars>>
  /\ UNCHANGED unfenced

\* if (rev_rank) m_pool_state = Rendezvous; else the root goes on to release
barrier_arrive(w) ==
  /\ At(w, "barrier_fan_in")
  /\ idx[w] = m_pool_fan_size(w)
  /\ IF rev_rank(w) # 0
       THEN /\ m_pool_state' = [m_pool_state EXCEPT ![w] = "Rendezvous"]
            /\ pc' = [pc EXCEPT ![w] = "barrier_wait"]
       ELSE /\ UNCHANGED m_pool_state
            /\ pc' = [pc EXCEPT ![w] = "barrier_release"]
  /\ idx' = [idx EXCEPT ![w] = 0]
  /\ UNCHANGED <<m_pool_size, prog, reduce_memory, scan_memory, accum,
                 entered, returned, value, result,
                 sched_vars, graph_vars>>
  /\ unfenced' = [unfenced EXCEPT ![w] = @ /\ rev_rank(w) # 0]

\* spinwait_while_equal(m_pool_state, Rendezvous); then the call returns
barrier_wait(w) ==
  /\ At(w, "barrier_wait")
  /\ m_pool_state[w] # "Rendezvous"
  /\ Return(w)
  /\ UNCHANGED <<m_pool_size, prog, m_pool_state, reduce_memory, scan_memory,
                 accum, entered, value, result,
                 sched_vars, graph_vars>>
  /\ UNCHANGED unfenced

\* get_thread(rank)->m_pool_state = Active, one rank per step
\* Mutant: the release loop of barrier() starts one rank late
barrier_release_from_one(w) ==
  /\ At(w, "barrier_release")
  /\ idx[w] < m_pool_size
  /\ m_pool_state' = IF idx[w] = 0 THEN m_pool_state
                     ELSE [m_pool_state EXCEPT
                             ![get_thread(idx[w])] = "Active"]
  /\ idx' = [idx EXCEPT ![w] = @ + 1]
  /\ UNCHANGED <<m_pool_size, prog, pc, reduce_memory, scan_memory, accum,
                 entered, returned, value, result,
                 sched_vars, graph_vars>>
  /\ UNCHANGED unfenced

barrier_release(w) ==
  /\ At(w, "barrier_release")
  /\ idx[w] < m_pool_size
  /\ m_pool_state' = [m_pool_state EXCEPT ![get_thread(idx[w])] = "Active"]
  /\ idx' = [idx EXCEPT ![w] = @ + 1]
  /\ UNCHANGED <<m_pool_size, prog, pc, reduce_memory, scan_memory, accum,
                 entered, returned, value, result,
                 sched_vars, graph_vars>>
  /\ UNCHANGED unfenced

barrier_return(w) ==
  /\ At(w, "barrier_release")
  /\ idx[w] = m_pool_size
  /\ Return(w)
  /\ UNCHANGED <<m_pool_size, prog, m_pool_state, reduce_memory, scan_memory,
                 accum, entered, value, result,
                 sched_vars, graph_vars>>
  /\ UNCHANGED unfenced

\* ------------------------------------------------------------------------
\* all_reduce(value)

\* The argument worker w passes in its k-th call: its drawn value, scaled by
\* the round so that the rounds' sums differ.
all_reduce_value(w, k) == k * value[w]

\* *reduce_memory() = value; memory_fence();
all_reduce_enter(w) ==
  /\ NextCall(w) = "all_reduce"
  /\ reduce_memory' = [reduce_memory EXCEPT
                          ![w] = all_reduce_value(w, entered[w] + 1)]
  /\ entered' = [entered EXCEPT ![w] = @ + 1]
  /\ pc' = [pc EXCEPT ![w] = "all_reduce_fan_in"]
  /\ idx' = [idx EXCEPT ![w] = 0]
  /\ UNCHANGED <<m_pool_size, prog, m_pool_state, scan_memory, accum,
                 returned, value, result,
                 sched_vars, graph_vars>>
  /\ unfenced' = [unfenced EXCEPT ![w] = FALSE]

\* Mutant: the fan-in loop of all_reduce() does not wait for the child
all_reduce_fan_in_nowait(w) ==
  /\ At(w, "all_reduce_fan_in")
  /\ idx[w] < m_pool_fan_size(w)
  /\ idx' = [idx EXCEPT ![w] = @ + 1]
  /\ UNCHANGED <<m_pool_size, prog, m_pool_state, pc, reduce_memory,
                 scan_memory, accum, entered, returned, value, result,
                 sched_vars, graph_vars>>
  /\ UNCHANGED unfenced

all_reduce_fan_in(w) ==
  /\ At(w, "all_reduce_fan_in")
  /\ idx[w] < m_pool_fan_size(w)
  /\ m_pool_state[fan(w, idx[w])] # "Active"
  /\ idx' = [idx EXCEPT ![w] = @ + 1]
  /\ UNCHANGED <<m_pool_size, prog, m_pool_state, pc, reduce_memory,
                 scan_memory, accum, entered, returned, value, result,
                 sched_vars, graph_vars>>
  /\ UNCHANGED unfenced

all_reduce_arrive(w) ==
  /\ At(w, "all_reduce_fan_in")
  /\ idx[w] = m_pool_fan_size(w)
  /\ IF rev_rank(w) # 0
       THEN /\ m_pool_state' = [m_pool_state EXCEPT ![w] = "Rendezvous"]
            /\ pc' = [pc EXCEPT ![w] = "all_reduce_wait"]
            /\ UNCHANGED accum
       ELSE /\ UNCHANGED m_pool_state
            /\ pc' = [pc EXCEPT ![w] = "all_reduce_sum"]
            /\ accum' = [accum EXCEPT ![w] = 0]
  /\ idx' = [idx EXCEPT ![w] = 0]
  /\ UNCHANGED <<m_pool_size, prog, reduce_memory, scan_memory, entered,
                 returned, value, result,
                 sched_vars, graph_vars>>
  /\ UNCHANGED unfenced

all_reduce_wait(w) ==
  /\ At(w, "all_reduce_wait")
  /\ m_pool_state[w] # "Rendezvous"
  /\ pc' = [pc EXCEPT ![w] = "all_reduce_result"]
  /\ UNCHANGED <<m_pool_size, prog, m_pool_state, idx, reduce_memory,
                 scan_memory, accum, entered, returned, value, result,
                 sched_vars, graph_vars>>
  /\ UNCHANGED unfenced

\* accum += *get_thread(rank)->reduce_memory()
all_reduce_sum(w) ==
  /\ At(w, "all_reduce_sum")
  /\ IF idx[w] < m_pool_size
       THEN /\ accum' = [accum EXCEPT
                           ![w] = @ + reduce_memory[get_thread(idx[w])]]
            /\ idx' = [idx EXCEPT ![w] = @ + 1]
            /\ UNCHANGED pc
       ELSE /\ pc' = [pc EXCEPT ![w] = "all_reduce_broadcast"]
            /\ idx' = [idx EXCEPT ![w] = 0]
            /\ UNCHANGED accum
  /\ UNCHANGED <<m_pool_size, prog, m_pool_state, reduce_memory, scan_memory,
                 entered, returned, value, result,
                 sched_vars, graph_vars>>
  /\ UNCHANGED unfenced

\* *get_thread(rank)->reduce_memory() = accum
all_reduce_broadcast(w) ==
  /\ At(w, "all_reduce_broadcast")
  /\ IF idx[w] < m_pool_size
       THEN /\ reduce_memory' = [reduce_memory EXCEPT
                                   ![get_thread(idx[w])] = accum[w]]
            /\ idx' = [idx EXCEPT ![w] = @ + 1]
            /\ UNCHANGED pc
       ELSE /\ pc' = [pc EXCEPT ![w] = "all_reduce_release"]
            /\ idx' = [idx EXCEPT ![w] = 0]
            /\ UNCHANGED reduce_memory
  /\ UNCHANGED <<m_pool_size, prog, m_pool_state, scan_memory, accum,
                 entered, returned, value, result,
                 sched_vars, graph_vars>>
  /\ unfenced' = [unfenced EXCEPT ![w] = idx[w] < m_pool_size]

\* get_thread(rank)->m_pool_state = Active
all_reduce_release(w) ==
  /\ At(w, "all_reduce_release")
  /\ IF idx[w] < m_pool_size
       THEN /\ m_pool_state' = [m_pool_state EXCEPT
                                  ![get_thread(idx[w])] = "Active"]
            /\ idx' = [idx EXCEPT ![w] = @ + 1]
            /\ UNCHANGED pc
       ELSE /\ pc' = [pc EXCEPT ![w] = "all_reduce_result"]
            /\ idx' = [idx EXCEPT ![w] = 0]
            /\ UNCHANGED m_pool_state
  /\ UNCHANGED <<m_pool_size, prog, reduce_memory, scan_memory, accum,
                 entered, returned, value, result,
                 sched_vars, graph_vars>>
  /\ UNCHANGED unfenced

\* return *reduce_memory()
all_reduce_result(w) ==
  /\ At(w, "all_reduce_result")
  /\ result' = [result EXCEPT ![w] = reduce_memory[w]]
  /\ Return(w)
  /\ UNCHANGED <<m_pool_size, prog, m_pool_state, reduce_memory, scan_memory,
                 accum, entered, value,
                 sched_vars, graph_vars>>
  /\ UNCHANGED unfenced

\* ------------------------------------------------------------------------
\* fan_in_reduce(f)

fan_in_reduce_enter(w) ==
  /\ NextCall(w) = "fan_in_reduce"
  /\ entered' = [entered EXCEPT ![w] = @ + 1]
  /\ pc' = [pc EXCEPT ![w] = "fan_in_reduce_wait"]
  /\ idx' = [idx EXCEPT ![w] = 0]
  /\ UNCHANGED <<m_pool_size, prog, m_pool_state, reduce_memory, scan_memory,
                 accum, returned, value, result,
                 sched_vars, graph_vars>>
  /\ UNCHANGED unfenced

\* Mutant: fan_in_reduce() joins a child's value without waiting for it
fan_in_reduce_wait_nowait(w) ==
  /\ At(w, "fan_in_reduce_wait")
  /\ idx[w] < m_pool_fan_size(w)
  /\ pc' = [pc EXCEPT ![w] = "fan_in_reduce_join"]
  /\ UNCHANGED <<m_pool_size, prog, m_pool_state, idx, reduce_memory,
                 scan_memory, accum, entered, returned, value, result,
                 sched_vars, graph_vars>>
  /\ UNCHANGED unfenced

\* spinwait_while_equal(fan.m_pool_state, Active)
fan_in_reduce_wait(w) ==
  /\ At(w, "fan_in_reduce_wait")
  /\ idx[w] < m_pool_fan_size(w)
  /\ m_pool_state[fan(w, idx[w])] # "Active"
  /\ pc' = [pc EXCEPT ![w] = "fan_in_reduce_join"]
  /\ UNCHANGED <<m_pool_size, prog, m_pool_state, idx, reduce_memory,
                 scan_memory, accum, entered, returned, value, result,
                 sched_vars, graph_vars>>
  /\ UNCHANGED unfenced

\* f.join(reduce_memory(), fan.reduce_memory())
fan_in_reduce_join(w) ==
  /\ At(w, "fan_in_reduce_join")
  /\ reduce_memory' = [reduce_memory EXCEPT
                         ![w] = join(@, reduce_memory[fan(w, idx[w])])]
  /\ idx' = [idx EXCEPT ![w] = @ + 1]
  /\ pc' = [pc EXCEPT ![w] = "fan_in_reduce_wait"]
  /\ UNCHANGED <<m_pool_size, prog, m_pool_state, scan_memory, accum,
                 entered, returned, value, result,
                 sched_vars, graph_vars>>
  /\ unfenced' = [unfenced EXCEPT ![w] = TRUE]

\* if (!rev_rank) f.final(reduce_memory()); memory_fence(); return
fan_in_reduce_final(w) ==
  /\ At(w, "fan_in_reduce_wait")
  /\ idx[w] = m_pool_fan_size(w)
  /\ reduce_memory' = [reduce_memory EXCEPT
                         ![w] = IF rev_rank(w) = 0 THEN final(@) ELSE @]
  /\ pc' = [pc EXCEPT ![w] = "fan_in_reduce_done"]
  /\ idx' = [idx EXCEPT ![w] = 0]
  /\ returned' = [returned EXCEPT ![w] = @ + 1]
  /\ UNCHANGED <<m_pool_size, prog, m_pool_state, scan_memory, accum,
                 entered, value, result,
                 sched_vars, graph_vars>>
  /\ unfenced' = [unfenced EXCEPT ![w] = FALSE]

\* "upon returning from this function will set 'm_pool_state' to inactive"
fan_in_reduce_inactive(w) ==
  /\ At(w, "fan_in_reduce_done")
  /\ m_pool_state' = [m_pool_state EXCEPT ![w] = "Inactive"]
  /\ pc' = [pc EXCEPT ![w] = "idle"]
  /\ UNCHANGED <<m_pool_size, prog, idx, reduce_memory, scan_memory, accum,
                 entered, returned, value, result,
                 sched_vars, graph_vars>>
  /\ UNCHANGED unfenced

\* ------------------------------------------------------------------------
\* scan_small(f)

scan_small_enter(w) ==
  /\ NextCall(w) = "scan_small"
  /\ entered' = [entered EXCEPT ![w] = @ + 1]
  /\ pc' = [pc EXCEPT ![w] = "scan_small_fan_in"]
  /\ idx' = [idx EXCEPT ![w] = 0]
  /\ UNCHANGED <<m_pool_size, prog, m_pool_state, reduce_memory, scan_memory,
                 accum, returned, value, result,
                 sched_vars, graph_vars>>
  /\ UNCHANGED unfenced

\* Mutant: the fan-in loop of scan_small() does not wait for the child
scan_small_fan_in_nowait(w) ==
  /\ At(w, "scan_small_fan_in")
  /\ idx[w] < m_pool_fan_size(w)
  /\ idx' = [idx EXCEPT ![w] = @ + 1]
  /\ UNCHANGED <<m_pool_size, prog, m_pool_state, pc, reduce_memory,
                 scan_memory, accum, entered, returned, value, result,
                 sched_vars, graph_vars>>
  /\ UNCHANGED unfenced

\* spinwait_while_equal(m_pool_base[rev_rank + (1 << i)]->m_pool_state, Active)
scan_small_fan_in(w) ==
  /\ At(w, "scan_small_fan_in")
  /\ idx[w] < m_pool_fan_size(w)
  /\ m_pool_state[fan(w, idx[w])] # "Active"
  /\ idx' = [idx EXCEPT ![w] = @ + 1]
  /\ UNCHANGED <<m_pool_size, prog, m_pool_state, pc, reduce_memory,
                 scan_memory, accum, entered, returned, value, result,
                 sched_vars, graph_vars>>
  /\ UNCHANGED unfenced

\* work_value[i + count] = work_value[i]
scan_small_copy(w) ==
  /\ At(w, "scan_small_fan_in")
  /\ idx[w] = m_pool_fan_size(w)
  /\ scan_memory' = [scan_memory EXCEPT ![w] = reduce_memory[w]]
  /\ pc' = [pc EXCEPT ![w] = "scan_small_arrive"]
  /\ idx' = [idx EXCEPT ![w] = 0]
  /\ UNCHANGED <<m_pool_size, prog, m_pool_state, reduce_memory, accum,
                 entered, returned, value, result,
                 sched_vars, graph_vars>>
  /\ unfenced' = [unfenced EXCEPT ![w] = TRUE]

\* if (rev_rank) m_pool_state = Rendezvous; else the root scans
scan_small_arrive(w) ==
  /\ At(w, "scan_small_arrive")
  /\ IF rev_rank(w) # 0
       THEN /\ m_pool_state' = [m_pool_state EXCEPT ![w] = "Rendezvous"]
            /\ pc' = [pc EXCEPT ![w] = "scan_small_wait"]
       ELSE /\ UNCHANGED m_pool_state
            /\ pc' = [pc EXCEPT ![w] = "scan_small_root"]
  /\ UNCHANGED <<m_pool_size, prog, idx, reduce_memory, scan_memory, accum,
                 entered, returned, value, result,
                 sched_vars, graph_vars>>
  /\ UNCHANGED unfenced

\* Mutant: a worker of scan_small() does not wait to be released
scan_small_wait_nowait(w) ==
  /\ At(w, "scan_small_wait")
  /\ pc' = [pc EXCEPT ![w] = "scan_small_release"]
  /\ UNCHANGED <<m_pool_size, prog, m_pool_state, idx, reduce_memory,
                 scan_memory, accum, entered, returned, value, result,
                 sched_vars, graph_vars>>
  /\ UNCHANGED unfenced

\* spinwait_while_equal(m_pool_state, Rendezvous)
scan_small_wait(w) ==
  /\ At(w, "scan_small_wait")
  /\ m_pool_state[w] # "Rendezvous"
  /\ pc' = [pc EXCEPT ![w] = "scan_small_release"]
  /\ UNCHANGED <<m_pool_size, prog, m_pool_state, idx, reduce_memory,
                 scan_memory, accum, entered, returned, value, result,
                 sched_vars, graph_vars>>
  /\ UNCHANGED unfenced

\* Mutant: the root's pass of scan_small() lacks f.init(ptr) for rank 0
scan_small_root_noinit(w) ==
  /\ At(w, "scan_small_root")
  /\ IF idx[w] < m_pool_size
       THEN LET ptr == get_thread(idx[w])
                ptr_prev == get_thread(idx[w] - 1)
                excl == IF idx[w] # 0 THEN scan_memory[ptr_prev]
                        ELSE reduce_memory[ptr]
            IN  /\ reduce_memory' = [reduce_memory EXCEPT ![ptr] = excl]
                /\ scan_memory' = [scan_memory EXCEPT
                                     ![ptr] = IF idx[w] # 0 THEN join(@, excl)
                                              ELSE @]
                /\ idx' = [idx EXCEPT ![w] = @ + 1]
                /\ UNCHANGED pc
       ELSE /\ pc' = [pc EXCEPT ![w] = "scan_small_release"]
            /\ idx' = [idx EXCEPT ![w] = 0]
            /\ UNCHANGED <<reduce_memory, scan_memory>>
  /\ UNCHANGED <<m_pool_size, prog, m_pool_state, accum, entered, returned,
                 value, result,
                 sched_vars, graph_vars>>
  /\ unfenced' = [unfenced EXCEPT ![w] = TRUE]

\* One rank of the root's loop: ptr[i] = ptr_prev[i + count];
\* f.join(ptr + count, ptr); for rank 0, f.init(ptr)
scan_small_root(w) ==
  /\ At(w, "scan_small_root")
  /\ IF idx[w] < m_pool_size
       THEN LET ptr == get_thread(idx[w])
                ptr_prev == get_thread(idx[w] - 1)
                excl == IF idx[w] # 0 THEN scan_memory[ptr_prev] ELSE init
            IN  /\ reduce_memory' = [reduce_memory EXCEPT ![ptr] = excl]
                /\ scan_memory' = [scan_memory EXCEPT
                                     ![ptr] = IF idx[w] # 0 THEN join(@, excl)
                                              ELSE @]
                /\ idx' = [idx EXCEPT ![w] = @ + 1]
                /\ UNCHANGED pc
       ELSE /\ pc' = [pc EXCEPT ![w] = "scan_small_release"]
            /\ idx' = [idx EXCEPT ![w] = 0]
            /\ UNCHANGED <<reduce_memory, scan_memory>>
  /\ UNCHANGED <<m_pool_size, prog, m_pool_state, accum, entered, returned,
                 value, result,
                 sched_vars, graph_vars>>
  /\ unfenced' = [unfenced EXCEPT ![w] = TRUE]

\* m_pool_base[rev_rank + (1 << i)]->m_pool_state = Active
scan_small_release(w) ==
  /\ At(w, "scan_small_release")
  /\ idx[w] < m_pool_fan_size(w)
  /\ m_pool_state' = [m_pool_state EXCEPT ![fan(w, idx[w])] = "Active"]
  /\ idx' = [idx EXCEPT ![w] = @ + 1]
  /\ UNCHANGED <<m_pool_size, prog, pc, reduce_memory, scan_memory, accum,
                 entered, returned, value, result,
                 sched_vars, graph_vars>>
  /\ UNCHANGED unfenced

scan_small_return(w) ==
  /\ At(w, "scan_small_release")
  /\ idx[w] = m_pool_fan_size(w)
  /\ Return(w)
  /\ UNCHANGED <<m_pool_size, prog, m_pool_state, reduce_memory, scan_memory,
                 accum, entered, value, result,
                 sched_vars, graph_vars>>
  /\ UNCHANGED unfenced

\* ------------------------------------------------------------------------
\* scan_large(f)

\* (1 << m_pool_fan_size) < (m_pool_rank + 1)
has_skip(w) == 2^m_pool_fan_size(w) < w + 1

\* m_pool_base[rev_rank + (1 << m_pool_fan_size)]
skip(w) == pool_base(rev_rank(w) + 2^m_pool_fan_size(w))

scan_large_enter(w) ==
  /\ NextCall(w) = "scan_large"
  /\ entered' = [entered EXCEPT ![w] = @ + 1]
  /\ pc' = [pc EXCEPT ![w] = "scan_large_fan_in"]
  /\ idx' = [idx EXCEPT ![w] = 0]
  /\ UNCHANGED <<m_pool_size, prog, m_pool_state, reduce_memory, scan_memory,
                 accum, returned, value, result,
                 sched_vars, graph_vars>>
  /\ UNCHANGED unfenced

\* Wait: Active -> ReductionAvailable (or ScanAvailable)
scan_large_fan_in(w) ==
  /\ At(w, "scan_large_fan_in")
  /\ idx[w] < m_pool_fan_size(w)
  /\ m_pool_state[fan(w, idx[w])] # "Active"
  /\ pc' = [pc EXCEPT ![w] = "scan_large_join"]
  /\ UNCHANGED <<m_pool_size, prog, m_pool_state, idx, reduce_memory,
                 scan_memory, accum, entered, returned, value, result,
                 sched_vars, graph_vars>>
  /\ UNCHANGED unfenced

\* f.join(work_value, fan.reduce_memory())
scan_large_join(w) ==
  /\ At(w, "scan_large_join")
  /\ reduce_memory' = [reduce_memory EXCEPT
                         ![w] = join(@, reduce_memory[fan(w, idx[w])])]
  /\ idx' = [idx EXCEPT ![w] = @ + 1]
  /\ pc' = [pc EXCEPT ![w] = "scan_large_fan_in"]
  /\ UNCHANGED <<m_pool_size, prog, m_pool_state, scan_memory, accum,
                 entered, returned, value, result,
                 sched_vars, graph_vars>>
  /\ unfenced' = [unfenced EXCEPT ![w] = TRUE]

\* work_value[i + count] = work_value[i]
scan_large_copy(w) ==
  /\ At(w, "scan_large_fan_in")
  /\ idx[w] = m_pool_fan_size(w)
  /\ scan_memory' = [scan_memory EXCEPT ![w] = reduce_memory[w]]
  /\ pc' = [pc EXCEPT ![w] = IF rev_rank(w) # 0 THEN "scan_large_reduction"
                             ELSE "scan_large_rendezvous"]
  /\ idx' = [idx EXCEPT ![w] = 0]
  /\ UNCHANGED <<m_pool_size, prog, m_pool_state, reduce_memory, accum,
                 entered, returned, value, result,
                 sched_vars, graph_vars>>
  /\ unfenced' = [unfenced EXCEPT ![w] = TRUE]

\* Set: Active -> ReductionAvailable
scan_large_reduction(w) ==
  /\ At(w, "scan_large_reduction")
  /\ m_pool_state' = [m_pool_state EXCEPT ![w] = "ReductionAvailable"]
  /\ pc' = [pc EXCEPT ![w] = IF has_skip(w) THEN "scan_large_skip_active"
                             ELSE "scan_large_scan"]
  /\ UNCHANGED <<m_pool_size, prog, idx, reduce_memory, scan_memory, accum,
                 entered, returned, value, result,
                 sched_vars, graph_vars>>
  /\ UNCHANGED unfenced

\* spinwait_while_equal(th.m_pool_state, Active)
scan_large_skip_active(w) ==
  /\ At(w, "scan_large_skip_active")
  /\ m_pool_state[skip(w)] # "Active"
  /\ pc' = [pc EXCEPT ![w] = "scan_large_skip_reduction"]
  /\ UNCHANGED <<m_pool_size, prog, m_pool_state, idx, reduce_memory,
                 scan_memory, accum, entered, returned, value, result,
                 sched_vars, graph_vars>>
  /\ UNCHANGED unfenced

\* Mutant: scan_large() lacks the second wait on the skip neighbour
scan_large_skip_reduction_nowait(w) ==
  /\ At(w, "scan_large_skip_reduction")
  /\ pc' = [pc EXCEPT ![w] = "scan_large_skip_join"]
  /\ UNCHANGED <<m_pool_size, prog, m_pool_state, idx, reduce_memory,
                 scan_memory, accum, entered, returned, value, result,
                 sched_vars, graph_vars>>
  /\ UNCHANGED unfenced

\* spinwait_while_equal(th.m_pool_state, ReductionAvailable)
scan_large_skip_reduction(w) ==
  /\ At(w, "scan_large_skip_reduction")
  /\ m_pool_state[skip(w)] # "ReductionAvailable"
  /\ pc' = [pc EXCEPT ![w] = "scan_large_skip_join"]
  /\ UNCHANGED <<m_pool_size, prog, m_pool_state, idx, reduce_memory,
                 scan_memory, accum, entered, returned, value, result,
                 sched_vars, graph_vars>>
  /\ UNCHANGED unfenced

\* f.join(work_value + count, th.reduce_memory() + count)
scan_large_skip_join(w) ==
  /\ At(w, "scan_large_skip_join")
  /\ scan_memory' = [scan_memory EXCEPT
                       ![w] = join(@, scan_memory[skip(w)])]
  /\ pc' = [pc EXCEPT ![w] = "scan_large_scan"]
  /\ UNCHANGED <<m_pool_size, prog, m_pool_state, idx, reduce_memory, accum,
                 entered, returned, value, result,
                 sched_vars, graph_vars>>
  /\ unfenced' = [unfenced EXCEPT ![w] = TRUE]

\* Set: ReductionAvailable -> ScanAvailable
scan_large_scan(w) ==
  /\ At(w, "scan_large_scan")
  /\ m_pool_state' = [m_pool_state EXCEPT ![w] = "ScanAvailable"]
  /\ pc' = [pc EXCEPT ![w] = "scan_large_scan_wait"]
  /\ UNCHANGED <<m_pool_size, prog, idx, reduce_memory, scan_memory, accum,
                 entered, returned, value, result,
                 sched_vars, graph_vars>>
  /\ UNCHANGED unfenced

\* Wait: ScanAvailable -> Rendezvous
scan_large_scan_wait(w) ==
  /\ At(w, "scan_large_scan_wait")
  /\ m_pool_state[w] # "ScanAvailable"
  /\ pc' = [pc EXCEPT ![w] = "scan_large_rendezvous"]
  /\ UNCHANGED <<m_pool_size, prog, m_pool_state, idx, reduce_memory,
                 scan_memory, accum, entered, returned, value, result,
                 sched_vars, graph_vars>>
  /\ UNCHANGED unfenced

\* Mutant: scan_large() sets a child to Rendezvous without waiting for the
\* child's ScanAvailable
scan_large_rendezvous_nowait(w) ==
  /\ At(w, "scan_large_rendezvous")
  /\ idx[w] < m_pool_fan_size(w)
  /\ pc' = [pc EXCEPT ![w] = "scan_large_set_rendezvous"]
  /\ UNCHANGED <<m_pool_size, prog, m_pool_state, idx, reduce_memory,
                 scan_memory, accum, entered, returned, value, result,
                 sched_vars, graph_vars>>
  /\ UNCHANGED unfenced

\* Wait: ReductionAvailable -> ScanAvailable (on the child)
scan_large_rendezvous(w) ==
  /\ At(w, "scan_large_rendezvous")
  /\ idx[w] < m_pool_fan_size(w)
  /\ m_pool_state[fan(w, idx[w])] # "ReductionAvailable"
  /\ pc' = [pc EXCEPT ![w] = "scan_large_set_rendezvous"]
  /\ UNCHANGED <<m_pool_size, prog, m_pool_state, idx, reduce_memory,
                 scan_memory, accum, entered, returned, value, result,
                 sched_vars, graph_vars>>
  /\ UNCHANGED unfenced

\* fan.m_pool_state = Rendezvous
scan_large_set_rendezvous(w) ==
  /\ At(w, "scan_large_set_rendezvous")
  /\ m_pool_state' = [m_pool_state EXCEPT ![fan(w, idx[w])] = "Rendezvous"]
  /\ idx' = [idx EXCEPT ![w] = @ + 1]
  /\ pc' = [pc EXCEPT ![w] = "scan_large_rendezvous"]
  /\ UNCHANGED <<m_pool_size, prog, reduce_memory, scan_memory, accum,
                 entered, returned, value, result,
                 sched_vars, graph_vars>>
  /\ UNCHANGED unfenced

\* Mutant: the exclusive scan of scan_large() copies the previous thread's
\* reduction value (src_value lacks "+ count")
scan_large_exclusive_nocount(w) ==
  /\ At(w, "scan_large_rendezvous")
  /\ idx[w] = m_pool_fan_size(w)
  /\ reduce_memory' = [reduce_memory EXCEPT
                         ![w] = IF rev_rank(w) + 1 < m_pool_size
                                  THEN reduce_memory[pool_base(rev_rank(w) + 1)]
                                  ELSE init]
  /\ pc' = [pc EXCEPT ![w] = "scan_large_completed_wait"]
  /\ idx' = [idx EXCEPT ![w] = 0]
  /\ UNCHANGED <<m_pool_size, prog, m_pool_state, scan_memory, accum,
                 entered, returned, value, result,
                 sched_vars, graph_vars>>
  /\ unfenced' = [unfenced EXCEPT ![w] = TRUE]

\* Exclusive scan: work_value[j] = src_value[j] of m_pool_base[rev_rank + 1],
\* or f.init(work_value) on the lowest rank
scan_large_exclusive(w) ==
  /\ At(w, "scan_large_rendezvous")
  /\ idx[w] = m_pool_fan_size(w)
  /\ reduce_memory' = [reduce_memory EXCEPT
                         ![w] = IF rev_rank(w) + 1 < m_pool_size
                                  THEN scan_memory[pool_base(rev_rank(w) + 1)]
                                  ELSE init]
  /\ pc' = [pc EXCEPT ![w] = "scan_large_completed_wait"]
  /\ idx' = [idx EXCEPT ![w] = 0]
  /\ UNCHANGED <<m_pool_size, prog, m_pool_state, scan_memory, accum,
                 entered, returned, value, result,
                 sched_vars, graph_vars>>
  /\ unfenced' = [unfenced EXCEPT ![w] = TRUE]

\* Wait for all threads: Rendezvous -> ScanCompleted
scan_large_completed_wait(w) ==
  /\ At(w, "scan_large_completed_wait")
  /\ idx[w] < m_pool_fan_size(w)
  /\ m_pool_state[fan(w, idx[w])] # "Rendezvous"
  /\ idx' = [idx EXCEPT ![w] = @ + 1]
  /\ UNCHANGED <<m_pool_size, prog, m_pool_state, pc, reduce_memory,
                 scan_memory, accum, entered, returned, value, result,
                 sched_vars, graph_vars>>
  /\ UNCHANGED unfenced

\* if (rev_rank) m_pool_state = ScanCompleted
scan_large_completed(w) ==
  /\ At(w, "scan_large_completed_wait")
  /\ idx[w] = m_pool_fan_size(w)
  /\ IF rev_rank(w) # 0
       THEN /\ m_pool_state' = [m_pool_state EXCEPT ![w] = "ScanCompleted"]
            /\ pc' = [pc EXCEPT ![w] = "scan_large_active_wait"]
       ELSE /\ UNCHANGED m_pool_state
            /\ pc' = [pc EXCEPT ![w] = "scan_large_release"]
  /\ idx' = [idx EXCEPT ![w] = 0]
  /\ UNCHANGED <<m_pool_size, prog, reduce_memory, scan_memory, accum,
                 entered, returned, value, result,
                 sched_vars, graph_vars>>
  /\ UNCHANGED unfenced

\* Wait: ScanCompleted -> Active
scan_large_active_wait(w) ==
  /\ At(w, "scan_large_active_wait")
  /\ m_pool_state[w] # "ScanCompleted"
  /\ pc' = [pc EXCEPT ![w] = "scan_large_release"]
  /\ UNCHANGED <<m_pool_size, prog, m_pool_state, idx, reduce_memory,
                 scan_memory, accum, entered, returned, value, result,
                 sched_vars, graph_vars>>
  /\ UNCHANGED unfenced

\* Mutant: scan_large() releases m_pool_base[rev_rank + i + 1]
scan_large_release_linear(w) ==
  /\ At(w, "scan_large_release")
  /\ idx[w] < m_pool_fan_size(w)
  /\ m_pool_state' = [m_pool_state EXCEPT
                        ![pool_base(rev_rank(w) + idx[w] + 1)] = "Active"]
  /\ idx' = [idx EXCEPT ![w] = @ + 1]
  /\ UNCHANGED <<m_pool_size, prog, pc, reduce_memory, scan_memory, accum,
                 entered, returned, value, result,
                 sched_vars, graph_vars>>
  /\ UNCHANGED unfenced

\* m_pool_base[rev_rank + (1 << i)]->m_pool_state = Active
scan_large_release(w) ==
  /\ At(w, "scan_large_release")
  /\ idx[w] < m_pool_fan_size(w)
  /\ m_pool_state' = [m_pool_state EXCEPT ![fan(w, idx[w])] = "Active"]
  /\ idx' = [idx EXCEPT ![w] = @ + 1]
  /\ UNCHANGED <<m_pool_size, prog, pc, reduce_memory, scan_memory, accum,
                 entered, returned, value, result,
                 sched_vars, graph_vars>>
  /\ UNCHANGED unfenced

scan_large_return(w) ==
  /\ At(w, "scan_large_release")
  /\ idx[w] = m_pool_fan_size(w)
  /\ Return(w)
  /\ UNCHANGED <<m_pool_size, prog, m_pool_state, reduce_memory, scan_memory,
                 accum, entered, value, result,
                 sched_vars, graph_vars>>
  /\ UNCHANGED unfenced

\* ------------------------------------------------------------------------
Next ==
  \E w \in Ranks :
    \/ barrier_enter(w)
    \/ barrier_fan_in(w)
    \/ barrier_arrive(w)
    \/ barrier_wait(w)
    \/ barrier_release(w)
    \/ barrier_return(w)
    \/ all_reduce_enter(w)
    \/ all_reduce_fan_in(w)
    \/ all_reduce_arrive(w)
    \/ all_reduce_wait(w)
    \/ all_reduce_sum(w)
    \/ all_reduce_broadcast(w)
    \/ all_reduce_release(w)
    \/ all_reduce_result(w)
    \/ fan_in_reduce_enter(w)
    \/ fan_in_reduce_wait(w)
    \/ fan_in_reduce_join(w)
    \/ fan_in_reduce_final(w)
    \/ fan_in_reduce_inactive(w)
    \/ scan_small_enter(w)
    \/ scan_small_fan_in(w)
    \/ scan_small_copy(w)
    \/ scan_small_arrive(w)
    \/ scan_small_wait(w)
    \/ scan_small_root(w)
    \/ scan_small_release(w)
    \/ scan_small_return(w)
    \/ scan_large_enter(w)
    \/ scan_large_fan_in(w)
    \/ scan_large_join(w)
    \/ scan_large_copy(w)
    \/ scan_large_reduction(w)
    \/ scan_large_skip_active(w)
    \/ scan_large_skip_reduction(w)
    \/ scan_large_skip_join(w)
    \/ scan_large_scan(w)
    \/ scan_large_scan_wait(w)
    \/ scan_large_rendezvous(w)
    \/ scan_large_set_rendezvous(w)
    \/ scan_large_exclusive(w)
    \/ scan_large_completed_wait(w)
    \/ scan_large_completed(w)
    \/ scan_large_active_wait(w)
    \/ scan_large_release(w)
    \/ scan_large_return(w)

Spec == Init /\ [][Next]_vars

\* ------------------------------------------------------------------------
\* Dynamic scheduling

StealRanks == 0 .. (MaxStealPool - 1)

\* first >= second: no index is left in the range
Exhausted(r) == r[1] >= r[2]

\* C++ integer division, which truncates toward zero
TruncDiv(a, b) == IF a >= 0 THEN a \div b ELSE -((-a) \div b)

\* A plain (non-atomic) copy of the 16-byte pair m_work_range races with the
\* compare-exchanges of other threads: begun when the pair was `seen` and
\* ended when it is `now`, it yields one half from each.
PlainRead(seen, now) == {<<seen[1], now[2]>>, <<now[1], seen[2]>>}

\* The indices of [begin, end)
RangeOf(a) == {i \in 0 .. MaxIndex : a.begin <= i /\ i < a.end}

\* Every worker has called set_work_range and reset_steal_target
AllReady ==
  \A v \in Workers : pc[v] \notin {"set_work_range", "reset_steal_target"}

\* The control block m_pool_base[m_current_steal_target] of worker w
victim(w) == pool_base(m_current_steal_target[w])

InitSched ==
  /\ m_pool_size \in 1 .. MaxStealPool
  /\ prog = <<"get_work_index">>
  /\ pc = [w \in Workers |-> "set_work_range"]
  /\ idx = [w \in Workers |-> 0]
  /\ m_pool_state = [w \in Workers |-> "Active"]
  /\ reduce_memory = [w \in Workers |-> 0]
  /\ scan_memory = [w \in Workers |-> init]
  /\ accum = [w \in Workers |-> 0]
  /\ entered = [w \in Workers |-> 0]
  /\ returned = [w \in Workers |-> 0]
  /\ value = [w \in Workers |-> 0]
  /\ result = [w \in Workers |-> 0]
  /\ unfenced = [w \in Workers |-> FALSE]
  /\ m_work_range = [w \in Workers |-> <<0, 0>>]
  /\ m_current_steal_target = [w \in Workers |-> 0]
  /\ m_stealing \in [Workers -> BOOLEAN]   \* as an earlier epoch left it
  /\ m_team_work_index = [w \in Workers |-> -1]
  /\ work_range_old = [w \in Workers |-> <<0, 0>>]
  /\ work_range_new = [w \in Workers |-> <<0, 0>>]
  /\ partial_read = [w \in Workers |-> <<0, 0>>]
  /\ range_args \in
       {a \in [Workers -> [begin : 0 .. MaxIndex, end : 0 .. MaxIndex,
                           chunk_size : {1}]] :
          /\ \A w \in Workers :
               \/ a[w].begin < a[w].end
               \/ a[w].begin = 0 /\ a[w].end = 0
          /\ \A w, v \in Workers :
               w # v => RangeOf(a[w]) \cap RangeOf(a[v]) = {}}
  /\ claimed = {}
  /\ twice = {}
  /\ team_size = 0
  /\ GraphImpl

\* m_work_range.first = (begin + chunk_size - 1) / chunk_size;
\* m_work_range.second = end > 0 ? (end + chunk_size - 1) / chunk_size : first
set_work_range(w) ==
  /\ At(w, "set_work_range")
  /\ LET a == range_args[w]
         first == TruncDiv(a.begin + a.chunk_size - 1, a.chunk_size)
         second == IF a.end > 0
                     THEN TruncDiv(a.end + a.chunk_size - 1, a.chunk_size)
                     ELSE first
     IN  m_work_range' = [m_work_range EXCEPT ![w] = <<first, second>>]
  /\ pc' = [pc EXCEPT ![w] = "reset_steal_target"]
  /\ UNCHANGED <<m_pool_size, prog, idx, coll_vars, graph_vars,
                 m_current_steal_target,
                 m_stealing, m_team_work_index, work_range_old,
                 work_range_new, partial_read, range_args,
                 team_size, claimed, twice>>

\* m_current_steal_target = (m_pool_rank + 1) % pool_size(); m_stealing = false
reset_steal_target(w) ==
  /\ At(w, "reset_steal_target")
  /\ m_current_steal_target' =
       [m_current_steal_target EXCEPT ![w] = (w + 1) % m_pool_size]
  /\ m_stealing' = [m_stealing EXCEPT ![w] = FALSE]
  /\ pc' = [pc EXCEPT ![w] = "get_work_index"]
  /\ UNCHANGED <<m_pool_size, prog, idx, coll_vars, graph_vars, m_work_range,
                 m_team_work_index, work_range_old, work_range_new,
                 partial_read, range_args, team_size, claimed, twice>>

\* The locals of a get_work_index_begin / _end call that has returned
Dead == <<0, 0>>

\* m_team_work_index = work_index; memory_fence(); return work_index;
\* a worker that got -1 stops asking
Publish(w, work_index) ==
  /\ m_team_work_index' = [m_team_work_index EXCEPT ![w] = work_index]
  /\ claimed' = IF work_index # -1 THEN claimed \cup {work_index} ELSE claimed
  /\ twice' = IF work_index # -1 /\ work_index \in claimed
                THEN twice \cup {work_index}
                ELSE twice
  /\ pc' = [pc EXCEPT ![w] = IF work_index = -1 THEN "done"
                             ELSE "get_work_index"]

\* get_work_index_begin() found the own range exhausted:
\* memory_fence(); m_stealing = true; work_index = steal_work_index(team_size)
StartStealing(w) ==
  /\ m_stealing' = [m_stealing EXCEPT ![w] = TRUE]
  /\ pc' = [pc EXCEPT ![w] = "get_steal_target"]

\* Mutant: get_work_index() tries the own range whatever m_stealing says
get_work_index_always_begin(w) ==
  /\ At(w, "get_work_index")
  /\ AllReady
  /\ pc' = [pc EXCEPT ![w] = "get_work_index_begin"]
  /\ UNCHANGED <<m_pool_size, prog, idx, coll_vars, graph_vars,
                 m_work_range, m_stealing,
                 m_current_steal_target, m_team_work_index, work_range_old,
                 work_range_new, partial_read, range_args, team_size,
                 claimed, twice>>

\* if (!m_stealing) work_index = get_work_index_begin();
get_work_index(w) ==
  /\ At(w, "get_work_index")
  /\ AllReady
  /\ IF ~m_stealing[w]
       THEN /\ pc' = [pc EXCEPT ![w] = "get_work_index_begin"]
            /\ UNCHANGED m_stealing
       ELSE StartStealing(w)
  /\ UNCHANGED <<m_pool_size, prog, idx, coll_vars, graph_vars, m_work_range,
                 m_current_steal_target, m_team_work_index, work_range_old,
                 work_range_new, partial_read, range_args,
                 team_size, claimed, twice>>

\* Kokkos::pair<long, long> work_range_new = m_work_range;  (the copy begins)
get_work_index_begin(w) ==
  /\ At(w, "get_work_index_begin")
  /\ partial_read' = [partial_read EXCEPT ![w] = m_work_range[w]]
  /\ pc' = [pc EXCEPT ![w] = "get_work_index_begin_check"]
  /\ UNCHANGED <<m_pool_size, prog, idx, coll_vars, graph_vars, m_work_range,
                 m_current_steal_target, m_stealing, m_team_work_index,
                 work_range_old, work_range_new, range_args,
                 team_size, claimed, twice>>

\* (the copy ends) work_range_old = work_range_new;
\* if (work_range_old.first >= work_range_old.second) return -1;
\* work_range_new.first += 1;
get_work_index_begin_check(w) ==
  /\ At(w, "get_work_index_begin_check")
  /\ \E r \in PlainRead(partial_read[w], m_work_range[w]) :
       IF Exhausted(r)
         THEN /\ StartStealing(w)
              /\ UNCHANGED <<work_range_old, work_range_new>>
         ELSE /\ work_range_old' = [work_range_old EXCEPT ![w] = r]
              /\ work_range_new' = [work_range_new EXCEPT
                                      ![w] = <<r[1] + 1, r[2]>>]
              /\ pc' = [pc EXCEPT ![w] = "get_work_index_begin_cas"]
              /\ UNCHANGED m_stealing
  /\ partial_read' = [partial_read EXCEPT ![w] = Dead]
  /\ UNCHANGED <<m_pool_size, prog, idx, coll_vars, graph_vars, m_work_range,
                 m_current_steal_target, m_team_work_index,
                 range_args, team_size,
                 claimed, twice>>

\* Mutant: the loop of get_work_index_begin() ends after one compare-exchange,
\* whether or not it succeeded
get_work_index_begin_cas_noretry(w) ==
  /\ At(w, "get_work_index_begin_cas")
  /\ LET seen == m_work_range[w]
         swapped == seen = work_range_old[w]
     IN  /\ m_work_range' = IF swapped
                              THEN [m_work_range EXCEPT
                                      ![w] = work_range_new[w]]
                              ELSE m_work_range
         /\ work_range_old' = [work_range_old EXCEPT ![w] = Dead]
         /\ work_range_new' = [work_range_new EXCEPT ![w] = Dead]
         /\ IF seen[1] < seen[2]
              THEN Publish(w, seen[1]) /\ UNCHANGED m_stealing
              ELSE /\ StartStealing(w)
                   /\ UNCHANGED <<m_team_work_index, claimed, twice>>
  /\ UNCHANGED <<m_pool_size, prog, idx, coll_vars, graph_vars,
                 m_current_steal_target,
                 partial_read, range_args, team_size>>

\* One turn of the loop: work_range_new = atomic_compare_exchange(
\* &m_work_range, work_range_old, work_range_new); success = ...;
\* work_range_old = work_range_new; work_range_new.first += 1;
\* and after the loop the return of work_range_old.first or of -1
get_work_index_begin_cas(w) ==
  /\ At(w, "get_work_index_begin_cas")
  /\ LET seen == m_work_range[w]
         swapped == seen = work_range_old[w]
         success == swapped \/ Exhausted(seen)
     IN  /\ m_work_range' = IF swapped
                              THEN [m_work_range EXCEPT
                                      ![w] = work_range_new[w]]
                              ELSE m_work_range
         /\ IF ~success
              THEN /\ work_range_old' = [work_range_old EXCEPT ![w] = seen]
                   /\ work_range_new' = [work_range_new EXCEPT
                                           ![w] = <<seen[1] + 1, seen[2]>>]
                   /\ UNCHANGED <<pc, m_stealing, m_team_work_index, claimed,
                                  twice>>
              ELSE /\ work_range_old' = [work_range_old EXCEPT ![w] = Dead]
                   /\ work_range_new' = [work_range_new EXCEPT ![w] = Dead]
                   /\ IF seen[1] < seen[2]
                        THEN Publish(w, seen[1]) /\ UNCHANGED m_stealing
                        ELSE /\ StartStealing(w)
                             /\ UNCHANGED <<m_team_work_index, claimed,
                                            twice>>
  /\ UNCHANGED <<m_pool_size, prog, idx, coll_vars, graph_vars,
                 m_current_steal_target,
                 partial_read, range_args, team_size>>

\* The loop condition of get_steal_target() begins to read
\* m_pool_base[m_current_steal_target]->m_work_range
get_steal_target(w) ==
  /\ At(w, "get_steal_target")
  /\ team_size = 0
  /\ partial_read' = [partial_read EXCEPT ![w] = m_work_range[victim(w)]]
  /\ pc' = [pc EXCEPT ![w] = "get_steal_target_check"]
  /\ UNCHANGED <<m_pool_size, prog, idx, coll_vars, graph_vars, m_work_range,
                 m_current_steal_target, m_stealing, m_team_work_index,
                 work_range_old, work_range_new, range_args,
                 team_size, claimed, twice>>

\* while (second <= first && m_current_steal_target != m_pool_rank)
\*   m_current_steal_target = (m_current_steal_target + 1) % pool_size();
\* if (m_current_steal_target == m_pool_rank) return -1;
\* else return m_current_steal_target;
\* steal_work_index: -1 ends the call, a target is tried with
\* get_work_index_end()
get_steal_target_check(w) ==
  /\ At(w, "get_steal_target_check")
  /\ team_size = 0
  /\ \E r \in PlainRead(partial_read[w], m_work_range[victim(w)]) :
       IF r[2] <= r[1] /\ m_current_steal_target[w] # m_pool_rank(w)
         THEN /\ m_current_steal_target' =
                   [m_current_steal_target EXCEPT
                      ![w] = (@ + 1) % m_pool_size]
              /\ pc' = [pc EXCEPT ![w] = "get_steal_target"]
              /\ UNCHANGED <<m_team_work_index, claimed, twice>>
         ELSE /\ UNCHANGED m_current_steal_target
              /\ IF m_current_steal_target[w] = m_pool_rank(w)
                   THEN Publish(w, -1)
                   ELSE /\ pc' = [pc EXCEPT ![w] = "get_work_index_end"]
                        /\ UNCHANGED <<m_team_work_index, claimed, twice>>
  /\ partial_read' = [partial_read EXCEPT ![w] = Dead]
  /\ UNCHANGED <<m_pool_size, prog, idx, coll_vars, graph_vars,
                 m_work_range, m_stealing,
                 work_range_old, work_range_new, range_args, team_size>>

\* On the victim: Kokkos::pair<long, long> work_range_new = m_work_range;
get_work_index_end(w) ==
  /\ At(w, "get_work_index_end")
  /\ partial_read' = [partial_read EXCEPT ![w] = m_work_range[victim(w)]]
  /\ pc' = [pc EXCEPT ![w] = "get_work_index_end_check"]
  /\ UNCHANGED <<m_pool_size, prog, idx, coll_vars, graph_vars, m_work_range,
                 m_current_steal_target, m_stealing, m_team_work_index,
                 work_range_old, work_range_new, range_args,
                 team_size, claimed, twice>>

\* Mutant: get_work_index_end() lacks the early return on an exhausted range
get_work_index_end_check_always(w) ==
  /\ At(w, "get_work_index_end_check")
  /\ \E r \in PlainRead(partial_read[w], m_work_range[victim(w)]) :
       /\ work_range_old' = [work_range_old EXCEPT ![w] = r]
       /\ work_range_new' = [work_range_new EXCEPT ![w] = <<r[1], r[2] - 1>>]
       /\ pc' = [pc EXCEPT ![w] = "get_work_index_end_cas"]
  /\ partial_read' = [partial_read EXCEPT ![w] = Dead]
  /\ UNCHANGED <<m_pool_size, prog, idx, coll_vars, graph_vars, m_work_range,
                 m_current_steal_target, m_stealing, m_team_work_index,
                 range_args, team_size, claimed, twice>>

\* work_range_old = work_range_new;
\* if (work_range_old.first >= work_range_old.second) return -1;
\* work_range_new.second -= 1;
get_work_index_end_check(w) ==
  /\ At(w, "get_work_index_end_check")
  /\ \E r \in PlainRead(partial_read[w], m_work_range[victim(w)]) :
       IF Exhausted(r)
         THEN /\ pc' = [pc EXCEPT ![w] = "get_steal_target"]
              /\ UNCHANGED <<work_range_old, work_range_new>>
         ELSE /\ work_range_old' = [work_range_old EXCEPT ![w] = r]
              /\ work_range_new' = [work_range_new EXCEPT
                                      ![w] = <<r[1], r[2] - 1>>]
              /\ pc' = [pc EXCEPT ![w] = "get_work_index_end_cas"]
  /\ partial_read' = [partial_read EXCEPT ![w] = Dead]
  /\ UNCHANGED <<m_pool_size, prog, idx, coll_vars, graph_vars, m_work_range,
                 m_current_steal_target, m_stealing, m_team_work_index,
                 range_args, team_size, claimed, twice>>

\* Mutant: get_work_index_end() stores the narrowed range with a plain write
\* instead of the compare-exchange
get_work_index_end_store(w) ==
  /\ At(w, "get_work_index_end_cas")
  /\ m_work_range' = [m_work_range EXCEPT ![victim(w)] = work_range_new[w]]
  /\ work_range_old' = [work_range_old EXCEPT ![w] = Dead]
  /\ work_range_new' = [work_range_new EXCEPT ![w] = Dead]
  /\ Publish(w, work_range_old[w][2] - 1)
  /\ UNCHANGED <<m_pool_size, prog, idx, coll_vars, graph_vars,
                 m_current_steal_target,
                 m_stealing, partial_read, range_args, team_size>>

\* Mutant: the loop of get_work_index_end() ends only when the
\* compare-exchange succeeded (success lacks "|| first >= second")
get_work_index_end_cas_noexhausted(w) ==
  /\ At(w, "get_work_index_end_cas")
  /\ LET seen == m_work_range[victim(w)]
         swapped == seen = work_range_old[w]
         success == swapped
     IN  /\ m_work_range' = IF swapped
                              THEN [m_work_range EXCEPT
                                      ![victim(w)] = work_range_new[w]]
                              ELSE m_work_range
         /\ IF ~success
              THEN /\ work_range_old' = [work_range_old EXCEPT ![w] = seen]
                   /\ work_range_new' = [work_range_new EXCEPT
                                           ![w] = <<seen[1], seen[2] - 1>>]
                   /\ UNCHANGED <<pc, m_team_work_index, claimed, twice>>
              ELSE /\ work_range_old' = [work_range_old EXCEPT ![w] = Dead]
                   /\ work_range_new' = [work_range_new EXCEPT ![w] = Dead]
                   /\ IF seen[1] < seen[2]
                        THEN Publish(w, seen[2] - 1)
                        ELSE /\ pc' = [pc EXCEPT ![w] = "get_steal_target"]
                             /\ UNCHANGED <<m_team_work_index, claimed,
                                            twice>>
  /\ UNCHANGED <<m_pool_size, prog, idx, coll_vars, graph_vars,
                 m_current_steal_target,
                 m_stealing, partial_read, range_args, team_size>>

\* One turn of the loop of get_work_index_end() on the victim, and after the
\* loop the return of work_range_old.second - 1 or of -1
get_work_index_end_cas(w) ==
  /\ At(w, "get_work_index_end_cas")
  /\ LET seen == m_work_range[victim(w)]
         swapped == seen = work_range_old[w]
         success == swapped \/ Exhausted(seen)
     IN  /\ m_work_range' = IF swapped
                              THEN [m_work_range EXCEPT
                                      ![victim(w)] = work_range_new[w]]
                              ELSE m_work_range
         /\ IF ~success
              THEN /\ work_range_old' = [work_range_old EXCEPT ![w] = seen]
                   /\ work_range_new' = [work_range_new EXCEPT
                                           ![w] = <<seen[1], seen[2] - 1>>]
                   /\ UNCHANGED <<pc, m_team_work_index, claimed, twice>>
              ELSE /\ work_range_old' = [work_range_old EXCEPT ![w] = Dead]
                   /\ work_range_new' = [work_range_new EXCEPT ![w] = Dead]
                   /\ IF seen[1] < seen[2]
                        THEN Publish(w, seen[2] - 1)
                        ELSE /\ pc' = [pc EXCEPT ![w] = "get_steal_target"]
                             /\ UNCHANGED <<m_team_work_index, claimed,
                                            twice>>
  /\ UNCHANGED <<m_pool_size, prog, idx, coll_vars, graph_vars,
                 m_current_steal_target,
                 m_stealing, partial_read, range_args, team_size>>

NextSched ==
  \E w \in StealRanks :
    \/ set_work_range(w)
    \/ reset_steal_target(w)
    \/ get_work_index(w)
    \/ get_work_index_begin(w)
    \/ get_work_index_begin_check(w)
    \/ get_work_index_begin_cas(w)
    \/ get_steal_target(w)
    \/ get_steal_target_check(w)
    \/ get_work_index_end(w)
    \/ get_work_index_end_check(w)
    \/ get_work_index_end_cas(w)

SpecSched == InitSched /\ [][NextSched]_vars

\* ------------------------------------------------------------------------
\* Dynamic scheduling of teams: every call passes team_size > 0

\* int m_pool_rank_rev of worker w
m_pool_rank_rev(w) == rev_rank(w)

InitTeam ==
  /\ m_pool_size \in 1 .. MaxStealPool
  /\ team_size \in 1 .. m_pool_size
  /\ prog = <<"get_work_index">>
  /\ pc = [w \in Workers |-> "set_work_range"]
  /\ idx = [w \in Workers |-> 0]
  /\ m_pool_state = [w \in Workers |-> "Active"]
  /\ reduce_memory = [w \in Workers |-> 0]
  /\ scan_memory = [w \in Workers |-> init]
  /\ accum = [w \in Workers |-> 0]
  /\ entered = [w \in Workers |-> 0]
  /\ returned = [w \in Workers |-> 0]
  /\ value = [w \in Workers |-> 0]
  /\ result = [w \in Workers |-> 0]
  /\ unfenced = [w \in Workers |-> FALSE]
  /\ m_work_range = [w \in Workers |-> <<0, 0>>]
  /\ m_current_steal_target = [w \in Workers |-> 0]
  /\ m_stealing = [w \in Workers |-> FALSE]
  /\ m_team_work_index = [w \in Workers |-> -1]
  /\ work_range_old = [w \in Workers |-> <<0, 0>>]
  /\ work_range_new = [w \in Workers |-> <<0, 0>>]
  /\ partial_read = [w \in Workers |-> <<0, 0>>]
  /\ range_args \in
       {a \in [Workers -> [begin : 0 .. MaxTeamIndex, end : 0 .. MaxTeamIndex,
                           chunk_size : {1}]] :
          /\ \A w \in Workers :
               \/ a[w].begin < a[w].end
               \/ a[w].begin = 0 /\ a[w].end = 0
          /\ \A w, v \in Workers :
               w # v => RangeOf(a[w]) \cap RangeOf(a[v]) = {}}
  /\ claimed = {}
  /\ twice = {}
  /\ GraphImpl

\* m_current_steal_target = (m_pool_rank_rev + team_size);
\* if (m_current_steal_target >= pool_size()) m_current_steal_target = 0;
\* m_stealing = false;
reset_steal_target_team(w) ==
  /\ At(w, "reset_steal_target")
  /\ team_size > 0
  /\ m_current_steal_target' =
       [m_current_steal_target EXCEPT
          ![w] = IF m_pool_rank_rev(w) + team_size >= m_pool_size THEN 0
                 ELSE m_pool_rank_rev(w) + team_size]
  /\ m_stealing' = [m_stealing EXCEPT ![w] = FALSE]
  /\ pc' = [pc EXCEPT ![w] = "get_work_index"]
  /\ UNCHANGED <<m_pool_size, prog, idx, coll_vars, graph_vars, m_work_range,
                 m_team_work_index, work_range_old, work_range_new,
                 partial_read, range_args, team_size, claimed, twice>>

\* The loop condition of get_steal_target(team_size) begins to read
\* m_pool_base[m_current_steal_target]->m_work_range
get_steal_target_team(w) ==
  /\ At(w, "get_steal_target")
  /\ team_size > 0
  /\ partial_read' = [partial_read EXCEPT ![w] = m_work_range[victim(w)]]
  /\ pc' = [pc EXCEPT ![w] = "get_steal_target_check"]
  /\ UNCHANGED <<m_pool_size, prog, idx, coll_vars, graph_vars, m_work_range,
                 m_current_steal_target, m_stealing, m_team_work_index,
                 work_range_old, work_range_new, range_args, team_size,
                 claimed, twice>>

\* if (m_current_steal_target + team_size < pool_size())
\*   m_current_steal_target = (m_current_steal_target + team_size);
\* else m_current_steal_target = 0;
TeamStep(c) == IF c + team_size < m_pool_size THEN c + team_size ELSE 0

\* while (second <= first && m_current_steal_target != m_pool_rank_rev)
\*   the cursor advances by team_size, or wraps to 0
\* if (m_current_steal_target == m_pool_rank_rev) return -1;
\* else return m_current_steal_target;
get_steal_target_team_check(w) ==
  /\ At(w, "get_steal_target_check")
  /\ team_size > 0
  /\ \E r \in PlainRead(partial_read[w], m_work_range[victim(w)]) :
       IF r[2] <= r[1] /\ m_current_steal_target[w] # m_pool_rank_rev(w)
         THEN /\ m_current_steal_target' =
                   [m_current_steal_target EXCEPT ![w] = TeamStep(@)]
              /\ pc' = [pc EXCEPT ![w] = "get_steal_target"]
              /\ UNCHANGED <<m_team_work_index, claimed, twice>>
         ELSE /\ UNCHANGED m_current_steal_target
              /\ IF m_current_steal_target[w] = m_pool_rank_rev(w)
                   THEN Publish(w, -1)
                   ELSE /\ pc' = [pc EXCEPT ![w] = "get_work_index_end"]
                        /\ UNCHANGED <<m_team_work_index, claimed, twice>>
  /\ partial_read' = [partial_read EXCEPT ![w] = Dead]
  /\ UNCHANGED <<m_pool_size, prog, idx, coll_vars, graph_vars,
                 m_work_range, m_stealing,
                 work_range_old, work_range_new, range_args, team_size>>

NextTeam ==
  \E w \in StealRanks :
    \/ set_work_range(w)
    \/ reset_steal_target_team(w)
    \/ get_work_index(w)
    \/ get_work_index_begin(w)
    \/ get_work_index_begin_check(w)
    \/ get_work_index_begin_cas(w)
    \/ get_steal_target_team(w)
    \/ get_steal_target_team_check(w)
    \/ get_work_index_end(w)
    \/ get_work_index_end_check(w)
    \/ get_work_index_end_cas(w)

SpecTeam == InitTeam /\ [][NextTeam]_vars

\* ========================================================================
\* Properties

\* The call worker w returned from last
LastReturned(w) == IF returned[w] > 0 THEN prog[returned[w]] ELSE "none"

\* Every worker has entered the call worker w returned from last
AllEnteredBeforeReturn(w) == \A v \in Workers : entered[v] >= returned[w]

AllReturned == \A w \in Workers : returned[w] = Len(prog)

root == pool_base(0)

\* c_0 (+) c_1 (+) ... (+) c_{n-1}, the sequential left-to-right fold
Fold(n) == [val |-> [i \in 1 .. n |-> i - 1], fin |-> FALSE]

RECURSIVE Sum(_, _)
Sum(f, n) == IF n = 0 THEN 0 ELSE f[n - 1] + Sum(f, n - 1)

\* v_0 + ... + v_{N-1} of round k
RoundSum(k) == Sum([w \in Workers |-> all_reduce_value(w, k)], m_pool_size)

\* The workers of w's fan-in subtree, w included
RECURSIVE Subtree(_)
Subtree(w) ==
  {w} \cup UNION {Subtree(fan(w, i)) : i \in 0 .. (m_pool_fan_size(w) - 1)}

IsChild(p, v) == \E i \in 0 .. (m_pool_fan_size(p) - 1) : fan(p, i) = v

\* The worker that takes the step
Acted(w) == pc'[w] # pc[w] \/ idx'[w] # idx[w]

\* C1: no worker returns from its k-th barrier() call before every worker of
\* the pool has entered its k-th barrier() call.
C1_BarrierReturnsAfterAllEntered ==
  \A w \in Workers :
    LastReturned(w) = "barrier" => AllEnteredBeforeReturn(w)

C1_Witness ==
  /\ m_pool_size >= 3
  /\ prog = Repeat("barrier", MaxRounds)
  /\ AllReturned

\* C2: every worker's all_reduce(v_i) of a round returns v_0 + ... + v_{N-1}
\* of that round; the root sums only after every worker has written its slot.
C2_AllReduceReturnsSum ==
  /\ \A w \in Workers :
       LastReturned(w) = "all_reduce" => result[w] = RoundSum(returned[w])
  /\ \A v \in Workers :
       pc[root] \in {"all_reduce_sum", "all_reduce_broadcast",
                     "all_reduce_release"}
         => entered[v] >= entered[root]

C2_Witness ==
  /\ m_pool_size >= 3
  /\ prog = Repeat("all_reduce", MaxRounds)
  /\ AllReturned
  /\ value[0] # value[1]

\* C3: on return from scan_large, worker i's reduction slot holds the
\* exclusive prefix c_0 (+) ... (+) c_{i-1} (the identity for i = 0) and its
\* scan slot the inclusive prefix c_0 (+) ... (+) c_i.
C3_ScanLargePrefixes ==
  \A w \in Workers :
    LastReturned(w) = "scan_large"
      => /\ reduce_memory[w] = Fold(w)
         /\ scan_memory[w] = Fold(w + 1)

C3_Witness ==
  /\ m_pool_size >= 5
  /\ prog = <<"scan_large">>
  /\ AllReturned

\* C4: on return from scan_small, worker i's reduction slot holds the
\* exclusive prefix and its scan slot the inclusive prefix; while the root
\* makes its linear pass every other worker has copied its contribution into
\* its scan slot and waits.
C4_ScanSmallPrefixes ==
  /\ \A w \in Workers :
       LastReturned(w) = "scan_small"
         => /\ reduce_memory[w] = Fold(w)
            /\ scan_memory[w] = Fold(w + 1)
  /\ \A v \in Workers :
       (pc[root] = "scan_small_root" /\ v # root)
         => pc[v] = "scan_small_wait"

C4_Witness ==
  /\ m_pool_size >= 3
  /\ prog = <<"scan_small">>
  /\ AllReturned

\* C5: after fan_in_reduce the root's reduction slot holds final applied to
\* the sequential left-to-right fold c_0 (+) c_1 (+) ... (+) c_{N-1}.
C5_FanInReduceFold ==
  LastReturned(root) = "fan_in_reduce"
    => reduce_memory[root] = final(Fold(m_pool_size))

C5_Witness ==
  /\ m_pool_size >= 5
  /\ prog = <<"fan_in_reduce">>
  /\ AllReturned

\* C8 as stated: no call of all_reduce, fan_in_reduce, scan_small or
\* scan_large returns before every worker of the pool has entered that call.
C8_NoReturnBeforeAllEntered ==
  \A w \in Workers :
    LastReturned(w) \in {"all_reduce", "fan_in_reduce", "scan_small",
                         "scan_large"}
      => AllEnteredBeforeReturn(w)

\* C8 amended: no call of all_reduce, scan_small or scan_large returns before
\* every worker of the pool has entered that call; a fan_in_reduce call
\* returns only after every worker of the caller's fan-in subtree has entered
\* it, which is the whole pool for the root.
C8_ReturnAfterSubtreeEntered ==
  \A w \in Workers :
    /\ LastReturned(w) \in {"all_reduce", "scan_small", "scan_large"}
         => AllEnteredBeforeReturn(w)
    /\ LastReturned(w) = "fan_in_reduce"
         => /\ \A v \in Subtree(w) : entered[v] >= returned[w]
            /\ Subtree(root) = Workers

C8_Witness ==
  /\ m_pool_size >= 3
  /\ prog = <<"fan_in_reduce">>
  /\ returned[root] = 1

\* C10 as stated: in every collective a worker's pool_state is written only
\* by that worker itself.
C10_SingleWriter ==
  [][\A v \in Workers :
       m_pool_state'[v] # m_pool_state[v] => Acted(v)]_vars

\* C10 amended: a worker's pool_state leaves Active, and becomes
\* ReductionAvailable, ScanAvailable or ScanCompleted, only by the worker's
\* own write; another worker writes it only to release it: in barrier and
\* all_reduce the root sets it to Active, in scan_small and scan_large the
\* parent sets it to Active, and in scan_large the parent sets it from
\* ScanAvailable to Rendezvous.
C10_ForeignWritesOnlyRelease ==
  [][\A v \in Workers :
       m_pool_state'[v] # m_pool_state[v]
         => \/ Acted(v)
            \/ \E p \in Workers \ {v} :
                 /\ Acted(p)
                 /\ \/ /\ prog[1] \in {"barrier", "all_reduce"}
                       /\ p = root
                       /\ m_pool_state'[v] = "Active"
                    \/ /\ prog[1] \in {"scan_small", "scan_large"}
                       /\ IsChild(p, v)
                       /\ m_pool_state'[v] = "Active"
                    \/ /\ prog[1] = "scan_large"
                       /\ IsChild(p, v)
                       /\ m_pool_state[v] = "ScanAvailable"
                       /\ m_pool_state'[v] = "Rendezvous"]_vars

C10_Witness ==
  /\ m_pool_size >= 3
  /\ prog = <<"scan_large">>
  /\ \E v \in Workers : m_pool_state[v] = "Rendezvous"

\* The indices of all the ranges handed out by set_work_range
Assigned == UNION {RangeOf(range_args[w]) : w \in Workers}

AllDone == \A w \in Workers : pc[w] = "done"

\* C6: with pairwise disjoint own ranges and every worker calling
\* get_work_index() until it returns -1, each index of the union of the
\* ranges is returned by exactly one call and no other index is returned.
C6_EachIndexClaimedOnce ==
  /\ twice = {}
  /\ claimed \subseteq Assigned
  /\ AllDone => claimed = Assigned

C6_Witness ==
  /\ m_pool_size = 3
  /\ AllDone
  /\ Cardinality(claimed) >= 2
  /\ \E w \in Workers : RangeOf(range_args[w]) = Assigned
  /\ \E v \in Workers : m_work_range[v][2] < range_args[v].end

\* C7: get_work_index() returns -1 only if at that moment the work_range of
\* every worker of the pool is exhausted.
C7_MinusOneOnlyWhenExhausted ==
  \A w \in Workers :
    pc[w] = "done" => \A v \in Workers : Exhausted(m_work_range[v])

\* C9: first <= second in every reachable state, and once set_work_range has
\* set it a work_range changes only by a compare-exchange that succeeds and
\* takes exactly one index from its front or from its back.
C9_RangeNarrowsByCas ==
  /\ [](\A v \in Workers : m_work_range[v][1] <= m_work_range[v][2])
  /\ [][\A v \in Workers :
          (pc[v] # "set_work_range" /\ m_work_range'[v] # m_work_range[v])
            => /\ m_work_range[v][1] < m_work_range[v][2]
               /\ \/ m_work_range'[v] =
                       <<m_work_range[v][1] + 1, m_work_range[v][2]>>
                  \/ m_work_range'[v] =
                       <<m_work_range[v][1], m_work_range[v][2] - 1>>
               /\ \E w \in Workers :
                    /\ \/ pc[w] = "get_work_index_begin_cas" /\ w = v
                       \/ pc[w] = "get_work_index_end_cas" /\ victim(w) = v
                    /\ pc'[w] # pc[w]
                    /\ work_range_old[w] = m_work_range[v]
                    /\ work_range_new[w] = m_work_range'[v]]_vars

C9_Witness ==
  \E v \in Workers :
    /\ range_args[v].begin < m_work_range[v][1]
    /\ m_work_range[v][2] < range_args[v].end
    /\ pc[v] # "set_work_range"

\* C11: a get_work_index_begin call that succeeds on a range (f, s), f < s,
\* replaces it by (f + 1, s) in one step and returns f; a get_work_index_end
\* call that succeeds replaces it by (f, s - 1) and returns s - 1; a call
\* returns -1 only on an exhausted range and without changing any range; so
\* of a front and a back claimer racing for the last index one obtains it
\* and no index is obtained twice.
C11_ClaimIsAtomic ==
  /\ [](twice = {})
  /\ [][\A w \in Workers :
          LET own == m_work_range[w]
              vic == m_work_range[victim(w)]
          IN  /\ (pc[w] = "get_work_index_begin_cas"
                    /\ pc'[w] = "get_work_index")
                   => /\ own[1] < own[2]
                      /\ m_work_range'[w] = <<own[1] + 1, own[2]>>
                      /\ m_team_work_index'[w] = own[1]
              /\ (pc[w] = "get_work_index_end_cas"
                    /\ pc'[w] = "get_work_index")
                   => /\ vic[1] < vic[2]
                      /\ m_work_range'[victim(w)] = <<vic[1], vic[2] - 1>>
                      /\ m_team_work_index'[w] = vic[2] - 1
              /\ (pc[w] \in {"get_work_index_begin_check",
                             "get_work_index_begin_cas"}
                    /\ pc'[w] = "get_steal_target")
                   => Exhausted(own) /\ m_work_range' = m_work_range
              /\ (pc[w] \in {"get_work_index_end_check",
                             "get_work_index_end_cas"}
                    /\ pc'[w] = "get_steal_target")
                   => Exhausted(vic) /\ m_work_range' = m_work_range]_vars

\* The front claimer w has won the last index f of its range while the back
\* claimer v still holds (f, f + 1) for its compare-exchange
C11_Witness ==
  \E w, v \in Workers :
    /\ w # v
    /\ pc[v] = "get_work_index_end_cas"
    /\ victim(v) = w
    /\ m_team_work_index[w] >= 0
    /\ work_range_old[v] = <<m_team_work_index[w], m_team_work_index[w] + 1>>
    /\ m_work_range[w] = <<m_team_work_index[w] + 1, m_team_work_index[w] + 1>>

\* A step of worker w that leaves a spinwait_while_equal of a collective
SpinWait(w) ==
  \/ barrier_fan_in(w) \/ barrier_wait(w)
  \/ all_reduce_fan_in(w) \/ all_reduce_wait(w)
  \/ fan_in_reduce_wait(w)
  \/ scan_small_fan_in(w) \/ scan_small_wait(w)
  \/ scan_large_fan_in(w) \/ scan_large_skip_active(w)
  \/ scan_large_skip_reduction(w) \/ scan_large_scan_wait(w)
  \/ scan_large_rendezvous(w) \/ scan_large_completed_wait(w)
  \/ scan_large_active_wait(w)

\* C12: in a pool of one worker every collective runs without a spin-wait
\* and leaves pool_state Active (after fan_in_reduce the caller sets it
\* Inactive); all_reduce(v) returns v, and each scan leaves init's result as
\* the exclusive value and the worker's contribution as the inclusive value.
C12_PoolOfOne ==
  /\ [](m_pool_size = 1 =>
          /\ \/ m_pool_state[0] = "Active"
             \/ LastReturned(0) = "fan_in_reduce" /\ pc[0] = "idle"
          /\ LastReturned(0) = "all_reduce"
               => result[0] = all_reduce_value(0, returned[0])
          /\ LastReturned(0) \in {"scan_small", "scan_large"}
               => reduce_memory[0] = init /\ scan_memory[0] = contribution(0))
  /\ [][m_pool_size = 1 => ~SpinWait(0)]_vars

C12_Witness ==
  /\ m_pool_size = 1
  /\ AllReturned
  /\ prog \in {<<"scan_small">>, Repeat("all_reduce", MaxRounds)}

\* "Sequence of states" of scan_large: each state with the one that follows
ScanLargeSequence ==
  {<<"Active", "ReductionAvailable">>,
   <<"ReductionAvailable", "ScanAvailable">>,
   <<"ScanAvailable", "Rendezvous">>,
   <<"Rendezvous", "ScanCompleted">>,
   <<"ScanCompleted", "Active">>}

\* C13: during scan_large the pool_state of every non-root worker changes
\* only along Active -> ReductionAvailable -> ScanAvailable -> Rendezvous ->
\* ScanCompleted -> Active, once around and in step with the worker's
\* position in the call, and the root's pool_state stays Active.
C13_ScanLargeStateSequence ==
  /\ [](prog[1] = "scan_large" =>
          \A w \in Workers :
            IF w = root THEN m_pool_state[w] = "Active"
            ELSE
              /\ pc[w] \in {"idle", "scan_large_fan_in", "scan_large_join",
                            "scan_large_reduction", "scan_large_release"}
                   => m_pool_state[w] = "Active"
              /\ pc[w] \in {"scan_large_skip_active",
                            "scan_large_skip_reduction",
                            "scan_large_skip_join", "scan_large_scan"}
                   => m_pool_state[w] = "ReductionAvailable"
              /\ pc[w] = "scan_large_scan_wait"
                   => m_pool_state[w] \in {"ScanAvailable", "Rendezvous"}
              /\ pc[w] \in {"scan_large_rendezvous",
                            "scan_large_set_rendezvous",
                            "scan_large_completed_wait"}
                   => m_pool_state[w] = "Rendezvous"
              /\ pc[w] = "scan_large_active_wait"
                   => m_pool_state[w] \in {"ScanCompleted", "Active"})
  /\ [][prog[1] = "scan_large" =>
          \A w \in Workers :
            m_pool_state'[w] # m_pool_state[w]
              => /\ w # root
                 /\ <<m_pool_state[w], m_pool_state'[w]>>
                      \in ScanLargeSequence]_vars

C13_Witness ==
  /\ m_pool_size >= 4
  /\ prog[1] = "scan_large"
  /\ \E w \in Workers :
       /\ w # root
       /\ has_skip(w)
       /\ returned[w] = 1
       /\ m_pool_state[w] = "Active"

\* Worker w takes the Rendezvous -> ScanCompleted step of scan_large that
\* writes its exclusive scan value
ExclusiveStep(w) ==
  pc[w] = "scan_large_rendezvous" /\ pc'[w] = "scan_large_completed_wait"

\* C14 as stated: in that step every worker of reverse rank # 0 copies the
\* inclusive scan value of the worker at reverse rank + 1 into its reduction
\* slot, and the root (reverse rank 0) calls init on its reduction slot.
C14_RootCallsInit ==
  [][\A w \in Workers :
       ExclusiveStep(w)
         => IF rev_rank(w) # 0
              THEN /\ rev_rank(w) + 1 < m_pool_size
                   /\ reduce_memory'[w] =
                        scan_memory[pool_base(rev_rank(w) + 1)]
              ELSE reduce_memory'[w] = init]_vars

\* C14 amended: in that step every worker with reverse rank + 1 < pool size
\* (all but the worker of pool rank 0; the root is among them when the pool
\* has more than one worker) copies the inclusive scan value of the worker
\* at reverse rank + 1, which is complete, into its reduction slot as its
\* exclusive prefix, and the worker of pool rank 0 calls init on its slot.
C14_LowestRankCallsInit ==
  [][\A w \in Workers :
       ExclusiveStep(w)
         => IF m_pool_rank(w) # 0
              THEN /\ pool_base(rev_rank(w) + 1) = w - 1
                   /\ reduce_memory'[w] = scan_memory[w - 1]
                   /\ reduce_memory'[w] = Fold(w)
              ELSE reduce_memory'[w] = init]_vars

C14_Witness ==
  /\ m_pool_size >= 3
  /\ prog[1] = "scan_large"
  /\ pc[root] = "scan_large_completed_wait"
  /\ reduce_memory[root] = scan_memory[root - 1]
  /\ pc[0] = "scan_large_completed_wait"
  /\ reduce_memory[0] = init

\* Worker u has made its inclusive scan value available in this scan_large
ReachedScanAvailable(u) ==
  \/ m_pool_state[u] \in {"ScanAvailable", "Rendezvous", "ScanCompleted"}
  \/ pc[u] \in {"scan_large_active_wait", "scan_large_release"}
  \/ returned[u] = 1

\* C15: in scan_large no worker's pool_state is set to Rendezvous, and no
\* worker starts to overwrite its reduction slot with its exclusive prefix,
\* before every non-root worker of the pool has reached ScanAvailable.
C15_RendezvousAfterAllScanAvailable ==
  [][(/\ prog[1] = "scan_large"
      /\ \/ \E v \in Workers : /\ m_pool_state[v] # "Rendezvous"
                               /\ m_pool_state'[v] = "Rendezvous"
         \/ \E w \in Workers : ExclusiveStep(w))
       => \A u \in Workers \ {root} : ReachedScanAvailable(u)]_vars

\* C16: in all_reduce, fan_in_reduce, scan_small and scan_large a worker
\* that has written a reduction or scan slot issues memory_fence() before
\* its next write of a pool_state that a peer spins on.
C16_FenceBeforeStateWrite ==
  [][\A w \in Workers :
       (/\ prog[1] \in {"all_reduce", "fan_in_reduce", "scan_small",
                        "scan_large"}
        /\ Acted(w)
        /\ m_pool_state' # m_pool_state)
         => ~unfenced[w]]_vars

\* The positions of a get_work_index_begin call
BeginCall ==
  {"get_work_index_begin", "get_work_index_begin_check",
   "get_work_index_begin_cas"}

\* C17: a get_work_index call that finds the worker's own range exhausted
\* sets m_stealing; while the flag is set every get_work_index call of the
\* worker goes to stealing and none attempts get_work_index_begin; only
\* reset_steal_target clears the flag; and every call stores the value it
\* returns in m_team_work_index.
C17_StealingFlagLatches ==
  /\ [](\A w \in Workers : m_stealing[w] => pc[w] \notin BeginCall)
  /\ [][\A w \in Workers :
          /\ (pc[w] \in BeginCall /\ pc'[w] \notin BeginCall
                /\ pc'[w] # "get_work_index")
               => m_stealing'[w] /\ pc'[w] = "get_steal_target"
          /\ (pc[w] = "get_work_index" /\ m_stealing[w] /\ pc'[w] # pc[w])
               => pc'[w] = "get_steal_target"
          /\ (m_stealing[w] /\ ~m_stealing'[w])
               => pc[w] = "reset_steal_target"
          /\ (pc[w] \notin {"reset_steal_target", "get_work_index", "done"}
                /\ pc'[w] \in {"get_work_index", "done"})
               => IF pc'[w] = "done" THEN m_team_work_index'[w] = -1
                  ELSE \E i \in claimed' \ claimed :
                         m_team_work_index'[w] = i]_vars

\* A worker that steals has got an index and is about to call again, and a
\* flag left set by an earlier epoch has been cleared
C17_Witness ==
  \E w, v \in Workers :
    /\ m_stealing[w]
    /\ pc[w] = "get_work_index"
    /\ m_team_work_index[w] >= 0
    /\ ~m_stealing[v]
    /\ pc[v] \in BeginCall
    /\ range_args[v].begin = range_args[v].end

\* The positions of a get_work_index_end call on the returned steal target
EndCall ==
  {"get_work_index_end", "get_work_index_end_check",
   "get_work_index_end_cas"}

\* C18: get_steal_target() advances the cursor by one modulo pool_size and
\* only past a worker whose range is exhausted; the cursor it returns
\* addresses a worker other than the caller; and it returns -1 only when the
\* cursor is back at the caller's own control block and every other worker
\* of the pool has been examined and found exhausted.
C18_MinusOneAfterFullRound ==
  /\ [](\A w \in Workers : pc[w] \in EndCall => victim(w) # w)
  /\ [][\A w \in Workers :
          /\ (pc[w] # "reset_steal_target"
                /\ m_current_steal_target'[w] # m_current_steal_target[w])
               => /\ m_current_steal_target'[w] =
                       (m_current_steal_target[w] + 1) % m_pool_size
                  /\ Exhausted(m_work_range[victim(w)])
          /\ (pc[w] = "get_steal_target_check" /\ pc'[w] = "done")
               => /\ victim(w) = w
                  /\ \A v \in Workers \ {w} :
                       Exhausted(m_work_range[v])]_vars

\* The cursor c comes to the rank `target` within n advances by team_size
RECURSIVE CursorReaches(_, _, _)
CursorReaches(c, target, n) ==
  \/ c = target
  \/ n > 0 /\ CursorReaches(TeamStep(c), target, n - 1)

\* C19: for every pool size N, team_size in 1..N and calling worker, every
\* get_steal_target(team_size) and get_work_index(team_size) call
\* terminates: once all ranges are exhausted, the cursor of a worker in
\* get_steal_target(team_size), advancing by team_size and wrapping to 0,
\* comes to the caller's m_pool_rank_rev, where -1 is returned.
C19_TeamCursorReachesCaller ==
  \A w \in Workers :
    (/\ pc[w] \in {"get_steal_target", "get_steal_target_check"}
     /\ \A v \in Workers : Exhausted(m_work_range[v]))
      => CursorReaches(m_current_steal_target[w], m_pool_rank_rev(w),
                       m_pool_size)

\* The number of indices of the range r
Size(r) == r[2] - r[1]

\* The control block the call of worker w is claiming from
Target(w) == IF pc[w] \in BeginCall THEN w ELSE victim(w)

\* Worker w, at its compare-exchange, fails and goes round the loop again
Retry(w) ==
  /\ pc[w] \in {"get_work_index_begin_cas", "get_work_index_end_cas"}
  /\ pc'[w] = pc[w]
  /\ work_range_old'[w] # work_range_old[w]

\* C20: a get_work_index_begin or get_work_index_end call goes to its
\* compare-exchange with a range no wider than the range was when the call
\* started, and repeats the compare-exchange only when the range has been
\* narrowed by another caller since it was observed: a retry changes no
\* range and leaves the caller with the fresh value, which is not exhausted
\* and strictly narrower than the one it held.  So another caller has
\* succeeded whenever one retries, and a call retries fewer times than the
\* range had indices when the call started.
C20_RetryOnlyAfterForeignClaim ==
  [][\A w \in Workers :
       /\ (pc[w] \in {"get_work_index_begin_check",
                      "get_work_index_end_check"}
             /\ pc'[w] \in {"get_work_index_begin_cas",
                            "get_work_index_end_cas"})
            => /\ 1 <= Size(work_range_old'[w])
               /\ Size(work_range_old'[w]) <= Size(partial_read[w])
       /\ Retry(w)
            => /\ m_work_range' = m_work_range
               /\ work_range_old'[w] = m_work_range[Target(w)]
               /\ 1 <= Size(work_range_old'[w])
               /\ Size(work_range_old'[w]) < Size(work_range_old[w])]_vars

\* A front claimer and a back claimer are at their compare-exchange on the
\* same block, which a claim has narrowed since both observed it
C20_Witness ==
  \E w, v \in Workers :
    /\ w # v
    /\ pc[w] = "get_work_index_begin_cas"
    /\ pc[v] = "get_work_index_end_cas"
    /\ victim(v) = w
    /\ ~Exhausted(m_work_range[w])
    /\ work_range_old[w] # m_work_range[w]
    /\ work_range_old[v] # m_work_range[w]

\* ------------------------------------------------------------------------
\* Termination of the collectives

\* A step of worker w: every statement of a collective moves the worker's
\* position or its loop index
WorkerStep(w) ==
  \/ barrier_enter(w)
  \/ barrier_fan_in(w)
  \/ barrier_arrive(w)
  \/ barrier_wait(w)
  \/ barrier_release(w)
  \/ barrier_return(w)
  \/ all_reduce_enter(w)
  \/ all_reduce_fan_in(w)
  \/ all_reduce_arrive(w)
  \/ all_reduce_wait(w)
  \/ all_reduce_sum(w)
  \/ all_reduce_broadcast(w)
  \/ all_reduce_release(w)
  \/ all_reduce_result(w)
  \/ fan_in_reduce_enter(w)
  \/ fan_in_reduce_wait(w)
  \/ fan_in_reduce_join(w)
  \/ fan_in_reduce_final(w)
  \/ fan_in_reduce_inactive(w)
  \/ scan_small_enter(w)
  \/ scan_small_fan_in(w)
  \/ scan_small_copy(w)
  \/ scan_small_arrive(w)
  \/ scan_small_wait(w)
  \/ scan_small_root(w)
  \/ scan_small_release(w)
  \/ scan_small_return(w)
  \/ scan_large_enter(w)
  \/ scan_large_fan_in(w)
  \/ scan_large_join(w)
  \/ scan_large_copy(w)
  \/ scan_large_reduction(w)
  \/ scan_large_skip_active(w)
  \/ scan_large_skip_reduction(w)
  \/ scan_large_skip_join(w)
  \/ scan_large_scan(w)
  \/ scan_large_scan_wait(w)
  \/ scan_large_rendezvous(w)
  \/ scan_large_set_rendezvous(w)
  \/ scan_large_exclusive(w)
  \/ scan_large_completed_wait(w)
  \/ scan_large_completed(w)
  \/ scan_large_active_wait(w)
  \/ scan_large_release(w)
  \/ scan_large_return(w)

\* Every worker thread keeps being scheduled: a worker whose next statement
\* can be executed (a spin-wait whose condition holds included) executes it
FairSpec == Spec /\ \A w \in Ranks : WF_vars(WorkerStep(w))

AllActive == \A w \in Workers : m_pool_state[w] = "Active"

\* C21: when all workers of a pool that is all Active call the same
\* collective (barrier, all_reduce, scan_small or scan_large), then under
\* weak fairness of every worker every worker eventually returns from its
\* calls and every pool_state is Active again, and it stays so.
C21_CollectiveTerminates ==
  prog[1] \in {"barrier", "all_reduce", "scan_small", "scan_large"}
    => <>[](AllReturned /\ AllActive /\ \A w \in Workers : pc[w] = "idle")

C21_Witness ==
  /\ m_pool_size >= 5
  /\ prog \in {Repeat("barrier", MaxRounds), <<"scan_large">>}
  /\ AllReturned
  /\ AllActive
  /\ \A w \in Workers : pc[w] = "idle"

\* ------------------------------------------------------------------------
\* scan_large() called directly after another scan

\* The pool calls scan_large() twice, or scan_small() and then scan_large()
RepeatPrograms ==
  {<<"scan_large", "scan_large">>, <<"scan_small", "scan_large">>}

InitRepeat ==
  /\ m_pool_size \in 1 .. MaxPool
  /\ prog \in RepeatPrograms
  /\ m_pool_state = [w \in Workers |-> "Active"]
  /\ pc = [w \in Workers |-> "idle"]
  /\ idx = [w \in Workers |-> 0]
  /\ reduce_memory = [w \in Workers |-> contribution(w)]
  /\ scan_memory = [w \in Workers |-> init]
  /\ accum = [w \in Workers |-> 0]
  /\ entered = [w \in Workers |-> 0]
  /\ returned = [w \in Workers |-> 0]
  /\ value = [w \in Workers |-> 0]
  /\ result = [w \in Workers |-> 0]
  /\ unfenced = [w \in Workers |-> FALSE]
  /\ SchedIdle
  /\ GraphImpl

NextRepeat ==
  \E w \in Ranks :
    \/ scan_small_enter(w)
    \/ scan_small_fan_in(w)
    \/ scan_small_copy(w)
    \/ scan_small_arrive(w)
    \/ scan_small_wait(w)
    \/ scan_small_root(w)
    \/ scan_small_release(w)
    \/ scan_small_return(w)
    \/ scan_large_enter(w)
    \/ scan_large_fan_in(w)
    \/ scan_large_join(w)
    \/ scan_large_copy(w)
    \/ scan_large_reduction(w)
    \/ scan_large_skip_active(w)
    \/ scan_large_skip_reduction(w)
    \/ scan_large_skip_join(w)
    \/ scan_large_scan(w)
    \/ scan_large_scan_wait(w)
    \/ scan_large_rendezvous(w)
    \/ scan_large_set_rendezvous(w)
    \/ scan_large_exclusive(w)
    \/ scan_large_completed_wait(w)
    \/ scan_large_completed(w)
    \/ scan_large_active_wait(w)
    \/ scan_large_release(w)
    \/ scan_large_return(w)

SpecRepeat == InitRepeat /\ [][NextRepeat]_vars

\* The contribution of worker w to the second call is what the first call
\* left in its reduction slot: the exclusive prefix c_0 (+) ... (+) c_{w-1}
SecondContribution(w) == Fold(w)

\* The sequential left-to-right fold of the first n second contributions
RECURSIVE SecondFold(_)
SecondFold(n) ==
  IF n = 0 THEN init ELSE join(SecondContribution(n - 1), SecondFold(n - 1))

\* The peer whose pool_state worker w is spin-waiting on in scan_large()
WaitsOn(w) ==
  IF pc[w] = "scan_large_fan_in" THEN fan(w, idx[w]) ELSE skip(w)

\* Worker w passes a spin-wait on a child or on its skip neighbour
PassesPeerWait(w) ==
  /\ w \in Workers
  /\ \/ pc[w] = "scan_large_fan_in" /\ pc'[w] = "scan_large_join"
     \/ /\ pc[w] \in {"scan_large_skip_active", "scan_large_skip_reduction"}
        /\ pc'[w] # pc[w]

\* C22: when all workers call scan_large twice in succession, or scan_large
\* directly after scan_small, a worker in its second call passes a spin-wait
\* on a child or on its skip neighbour only when that peer is in its second
\* call too, and on return from the second call its reduction slot holds the
\* exclusive prefix and its scan slot the inclusive prefix of the second
\* call's contributions.
C22_SecondScanLarge ==
  /\ [](\A w \in Workers :
         returned[w] = 2
           => /\ reduce_memory[w] = SecondFold(w)
              /\ scan_memory[w] = SecondFold(w + 1))
  /\ [][\A w \in Ranks :
         PassesPeerWait(w) /\ entered[w] = 2 => entered[WaitsOn(w)] = 2]_vars

\* ------------------------------------------------------------------------
\* set_work_range(begin, end, chunk_size) on arguments of any sign and order

\* The worker of rank 0 is given any begin and end in -MaxArg .. MaxArg and
\* any chunk size in 1 .. MaxChunk; the scheduler fields are as an earlier
\* epoch may have left them.
InitRange ==
  /\ m_pool_size \in 1 .. MaxStealPool
  /\ prog = <<"set_work_range">>
  /\ pc = [w \in Workers |-> "set_work_range"]
  /\ idx = [w \in Workers |-> 0]
  /\ m_pool_state = [w \in Workers |-> "Active"]
  /\ reduce_memory = [w \in Workers |-> 0]
  /\ scan_memory = [w \in Workers |-> init]
  /\ accum = [w \in Workers |-> 0]
  /\ entered = [w \in Workers |-> 0]
  /\ returned = [w \in Workers |-> 0]
  /\ value = [w \in Workers |-> 0]
  /\ result = [w \in Workers |-> 0]
  /\ unfenced = [w \in Workers |-> FALSE]
  /\ m_work_range = [w \in Workers |-> <<w, MaxArg>>]
  /\ m_current_steal_target = [w \in Workers |-> (w + 1) % m_pool_size]
  /\ m_stealing \in [Workers -> BOOLEAN]
  /\ m_team_work_index = [w \in Workers |-> -1]
  /\ work_range_old = [w \in Workers |-> <<0, 0>>]
  /\ work_range_new = [w \in Workers |-> <<0, 0>>]
  /\ partial_read = [w \in Workers |-> <<0, 0>>]
  /\ range_args \in
       {[w \in Workers |-> IF w = 0 THEN a
                           ELSE [begin |-> w, end |-> w + 1,
                                 chunk_size |-> 1]] :
          a \in [begin : (-MaxArg) .. MaxArg, end : (-MaxArg) .. MaxArg,
                 chunk_size : 1 .. MaxChunk]}
  /\ claimed = {}
  /\ twice = {}
  /\ team_size = 0
  /\ GraphImpl

NextRange == \E w \in StealRanks : set_work_range(w)

SpecRange == InitRange /\ [][NextRange]_vars

\* ceil(a / b) for b > 0
Ceil(a, b) == -((-a) \div b)

\* C23: for all integers begin, end and chunk_size >= 1, set_work_range sets
\* the caller's range to (ceil(begin / chunk_size), ceil(end / chunk_size)),
\* or to (first, first) when end <= 0, so that first <= second; and it
\* changes nothing but the caller's own range.
C23_SetWorkRange ==
  /\ [](\A w \in Workers :
         pc[w] # "set_work_range"
           => LET a == range_args[w]
                  first == Ceil(a.begin, a.chunk_size)
                  second == IF a.end > 0 THEN Ceil(a.end, a.chunk_size)
                            ELSE first
              IN  /\ m_work_range[w] = <<first, second>>
                  /\ m_work_range[w][1] <= m_work_range[w][2])
  /\ [][\A w \in StealRanks :
         w \in Workers /\ pc[w] = "set_work_range" /\ pc'[w] # pc[w]
           => /\ m_current_steal_target' = m_current_steal_target
              /\ m_stealing' = m_stealing
              /\ m_team_work_index' = m_team_work_index
              /\ \A v \in Workers \ {w} :
                   m_work_range'[v] = m_work_range[v]]_vars

\* ------------------------------------------------------------------------
\* GraphImpl<Kokkos::SYCL>, used by one host thread

InitGraph ==
  /\ m_pool_size = 1
  /\ prog = <<"submit">>
  /\ m_pool_state = [w \in Workers |-> "Active"]
  /\ pc = [w \in Workers |-> "idle"]
  /\ idx = [w \in Workers |-> 0]
  /\ reduce_memory = [w \in Workers |-> 0]
  /\ scan_memory = [w \in Workers |-> init]
  /\ accum = [w \in Workers |-> 0]
  /\ entered = [w \in Workers |-> 0]
  /\ returned = [w \in Workers |-> 0]
  /\ value = [w \in Workers |-> 0]
  /\ result = [w \in Workers |-> 0]
  /\ unfenced = [w \in Workers |-> FALSE]
  /\ SchedIdle
  /\ GraphImpl

\* The fields of the thread pool, which no GraphImpl member touches
pool_vars == <<m_pool_size, prog, pc, idx, coll_vars, sched_vars>>

\* KOKKOS_EXPECTS(condition): the program aborts when the condition is false
KOKKOS_EXPECTS(condition) == aborted' = (aborted \/ ~condition)

\* KOKKOS_EXPECTS(!m_graph_exec); rv->node = m_graph.add(); return rv;
create_root_node_ptr ==
  /\ ~aborted
  /\ m_graph < MaxNodes
  /\ KOKKOS_EXPECTS(m_graph_exec = << >>)
  /\ m_graph' = IF m_graph_exec = << >> THEN m_graph + 1 ELSE m_graph
  /\ graph_call' = "create_root_node_ptr"
  /\ UNCHANGED <<m_graph_exec, sycl_queue, finalized, pool_vars>>

\* arg_node_ptr->node = m_graph.add();
add_node ==
  /\ ~aborted
  /\ m_graph < MaxNodes
  /\ m_graph' = m_graph + 1
  /\ graph_call' = "add_node"
  /\ UNCHANGED <<m_graph_exec, sycl_queue, finalized, aborted, pool_vars>>

\* The body of instantiate():
\* KOKKOS_EXPECTS(!m_graph_exec.has_value());
\* m_graph_exec = m_graph.finalize();
instantiate_body ==
  /\ KOKKOS_EXPECTS(m_graph_exec = << >>)
  /\ IF m_graph_exec = << >>
       THEN /\ m_graph_exec' = <<m_graph>>
            /\ finalized' = finalized + 1
       ELSE UNCHANGED <<m_graph_exec, finalized>>

\* instantiate() called by the user of the graph
instantiate ==
  /\ ~aborted
  /\ instantiate_body
  /\ graph_call' = "instantiate"
  /\ UNCHANGED <<m_graph, sycl_queue, pool_vars>>

\* Mutant: submit() calls instantiate() whether or not an executable exists
submit_always_instantiate ==
  /\ ~aborted
  /\ Len(sycl_queue) < MaxSubmits
  /\ instantiate_body
  /\ sycl_queue' = IF aborted' THEN sycl_queue
                   ELSE Append(sycl_queue, m_graph_exec'[1])
  /\ graph_call' = "submit"
  /\ UNCHANGED <<m_graph, pool_vars>>

\* if (!m_graph_exec) { instantiate(); }
\* m_execution_space.sycl_queue().ext_oneapi_graph(*m_graph_exec);
submit ==
  /\ ~aborted
  /\ Len(sycl_queue) < MaxSubmits
  /\ IF m_graph_exec = << >>
       THEN instantiate_body
       ELSE UNCHANGED <<m_graph_exec, finalized, aborted>>
  /\ sycl_queue' = IF aborted' THEN sycl_queue
                   ELSE Append(sycl_queue, m_graph_exec'[1])
  /\ graph_call' = "submit"
  /\ UNCHANGED <<m_graph, pool_vars>>

NextGraph ==
  \/ create_root_node_ptr
  \/ add_node
  \/ instantiate
  \/ submit

SpecGraph == InitGraph /\ [][NextGraph]_vars

\* A step of submit(), of an instantiate() call by the user
SubmitStep == graph_call' = "submit"

InstantiateStep == graph_call' = "instantiate"

\* C24: over any sequence of submit() calls the executable graph is
\* instantiated exactly once: the first submit() calls instantiate() (unless
\* the user has instantiated the graph before), every later submit() leaves
\* the stored executable as it is and enqueues it, and the precondition of
\* instantiate() holds whenever submit() calls it; the precondition fails
\* only in an instantiate() call by the user on a graph that has an
\* executable.
C24_InstantiatedOnce ==
  /\ [](/\ finalized <= 1
        /\ Len(sycl_queue) > 0
             => /\ finalized = 1
                /\ \A i \in 1 .. Len(sycl_queue) :
                     <<sycl_queue[i]>> = m_graph_exec)
  /\ [][/\ SubmitStep
            => /\ ~aborted'
               /\ (finalized' = finalized + 1
                    <=> Len(sycl_queue) = 0 /\ finalized = 0)
               /\ (Len(sycl_queue) > 0 => m_graph_exec' = m_graph_exec)
        /\ InstantiateStep => (aborted' <=> m_graph_exec # << >>)
        /\ (aborted' /\ (SubmitStep \/ InstantiateStep))
            => InstantiateStep /\ m_graph_exec # << >>]_vars

C24_Witness ==
  /\ Len(sycl_queue) = MaxSubmits
  /\ graph_call = "submit"
  /\ m_graph_exec = <<m_graph>>
  /\ m_graph > 0
  /\ finalized = 1
  /\ ~aborted

====
